---- MODULE Spec2Model ----
(***************************************************************************)
(* Streaming multi-provider chat completion relay (POST /api/chat), its    *)
(* guards (IP rate limiter, monthly quota), the subscription tier table,   *)
(* the provider factory and the usage ledger.                              *)
(*                                                                         *)
(* Time is in milliseconds, as Date.now().  The clock starts at 0, which   *)
(* stands for an instant in the middle of a calendar month; the modelled   *)
(* horizon (a little more than one rate-limit window) stays inside that    *)
(* month.                                                                  *)
(***************************************************************************)
EXTENDS Integers, Sequences, FiniteSets, TLC

(***************************************************************************)
(* Bounds of the model                                                     *)
(***************************************************************************)
\* largest number of tokens an adapter emits for one request
MaxTokens == 2
\* largest usage count tried on the pure quota function
MaxUsed == 1002
\* number of requests one user sends one after another
MaxRequests == 2
\* calls of the IP limiter tried beyond its ceiling within one window
MaxExtraCalls == 2
\* largest number of chunks an upstream stream delivers to an adapter
MaxChunks == 3
\* largest number of complete event lines in a response body the client reads
MaxLines == 2

(***************************************************************************)
(* Program constants and tables                                            *)
(***************************************************************************)
IP_RATE_LIMIT == 100
IP_RATE_WINDOW == 15 * 60 * 1000

Tiers == {"free", "pro", "enterprise"}

TIERS ==
  [ free |->
      [ messagesPerMonth |-> 50,
        models |-> {"gpt-3.5-turbo", "gemini-pro", "gemini-2.0-flash"} ],
    pro |->
      [ messagesPerMonth |-> 1000,
        models |-> {"gpt-3.5-turbo", "gpt-4", "gpt-4o",
                    "claude-3-sonnet-20240229", "claude-3-5-sonnet-20241022",
                    "gemini-pro", "gemini-1.5-pro", "gemini-1.5-flash",
                    "gemini-2.0-flash"} ],
    enterprise |->
      [ messagesPerMonth |-> -1,
        models |-> {"gpt-3.5-turbo", "gpt-4", "gpt-4-turbo", "gpt-4o",
                    "claude-3-haiku-20240307", "claude-3-sonnet-20240229",
                    "claude-3-opus-20240229", "claude-3-5-sonnet-20241022",
                    "gemini-pro", "gemini-1.5-pro", "gemini-1.5-flash",
                    "gemini-2.0-flash"} ] ]

\* z.enum of the request schema
aiModelSchema ==
  {"gpt-3.5-turbo", "gpt-4", "gpt-4-turbo", "gpt-4o",
   "claude-3-haiku-20240307", "claude-3-sonnet-20240229",
   "claude-3-opus-20240229", "claude-3-5-sonnet-20241022",
   "gemini-pro", "gemini-1.5-pro", "gemini-1.5-flash"}

Providers == {"openai", "anthropic", "google"}

\* the letters, for String.prototype.toLowerCase / toUpperCase
UpperLetters == "ABCDEFGHIJKLMNOPQRSTUVWXYZ"
LowerLetters == "abcdefghijklmnopqrstuvwxyz"

\* the character `c` with its case changed from the alphabet `from` to `to`
mapChar(c, from, to) ==
  IF \E k \in 1..Len(from) : SubSeq(from, k, k) = c
  THEN LET k == CHOOSE k \in 1..Len(from) : SubSeq(from, k, k) = c
       IN SubSeq(to, k, k)
  ELSE c

RECURSIVE toLowerCase(_)
toLowerCase(str) ==
  IF Len(str) = 0 THEN ""
  ELSE mapChar(SubSeq(str, 1, 1), UpperLetters, LowerLetters)
         \o toLowerCase(SubSeq(str, 2, Len(str)))

RECURSIVE toUpperCase(_)
toUpperCase(str) ==
  IF Len(str) = 0 THEN ""
  ELSE mapChar(SubSeq(str, 1, 1), LowerLetters, UpperLetters)
         \o toUpperCase(SubSeq(str, 2, Len(str)))

\* String.prototype.startsWith
startsWith(str, prefix) ==
  Len(str) >= Len(prefix) /\ SubSeq(str, 1, Len(prefix)) = prefix

\* identifiers outside the request schema that a caller of the factory can pass
OtherModelIds ==
  {"gemini-2.0-flash", "o1-preview", "o1-mini", "o3-mini",
   "llama-2-70b", "mistral-large", "text-davinci-003", "my-gpt-4", "chatgpt",
   "gp", "o2-mini", "claud", "gem", "palm-2", "x"}

\* a model id as written, in upper case, and with a capital first letter
CaseVariants(id) ==
  {id, toUpperCase(id),
   toUpperCase(SubSeq(id, 1, 1)) \o SubSeq(id, 2, Len(id))}

ModelIds == UNION {CaseVariants(id) : id \in aiModelSchema \cup OtherModelIds}

\* model families: the prefix getProviderFromModel finds on the lower-cased id
ModelFamily ==
  [ m \in ModelIds |->
      LET l == toLowerCase(m) IN
      CASE startsWith(l, "gpt") -> "gpt"
        [] startsWith(l, "o1") -> "o1"
        [] startsWith(l, "o3") -> "o3"
        [] startsWith(l, "claude") -> "claude"
        [] startsWith(l, "gemini") -> "gemini"
        [] OTHER -> "other" ]

NoValue == "none"

(***************************************************************************)
(* subscription-tiers                                                      *)
(***************************************************************************)
\* variant: membership in any tier's list is enough
canAccessModelAnyTier(tier, model) == \E t \in Tiers : model \in TIERS[t].models

canAccessModel(tier, model) == model \in TIERS[tier].models

getMessageLimit(tier) == TIERS[tier].messagesPerMonth

\* variant: no tier is treated as unlimited
isUnlimitedNever(tier) == FALSE

isUnlimited(tier) == TIERS[tier].messagesPerMonth = -1

\* property names every object literal inherits from Object.prototype
ObjectPrototypeKeys ==
  {"constructor", "toString", "toLocaleString", "valueOf", "hasOwnProperty",
   "isPrototypeOf", "propertyIsEnumerable", "__proto__"}

\* a value read from TIERS: one tier's configuration, a property inherited
\* from Object.prototype, or undefined
Looked(kind, name) == [kind |-> kind, name |-> name]

\* TIERS[tier] for any string: own properties first, then the prototype's
lookupTIERS(tier) ==
  CASE tier \in DOMAIN TIERS -> Looked("config", tier)
    [] tier \in ObjectPrototypeKeys -> Looked("inherited", tier)
    [] OTHER -> Looked("undefined", NoValue)

\* getSubscriptionLimits: TIERS[tier] || TIERS.free
getSubscriptionLimits(tier) ==
  IF lookupTIERS(tier).kind # "undefined" THEN lookupTIERS(tier)
  ELSE Looked("config", "free")

(***************************************************************************)
(* provider factory                                                        *)
(***************************************************************************)
\* the vendor, or "throw" for `throw new Error("Unknown model: ...")`
\* variant: an unrecognized identifier falls back to a default vendor
getProviderFromModelWithDefault(model) ==
  CASE ModelFamily[model] \in {"gpt", "o1", "o3"} -> "openai"
    [] ModelFamily[model] = "claude" -> "anthropic"
    [] ModelFamily[model] = "gemini" -> "google"
    [] OTHER -> "openai"

getProviderFromModel(model) ==
  CASE ModelFamily[model] \in {"gpt", "o1", "o3"} -> "openai"
    [] ModelFamily[model] = "claude" -> "anthropic"
    [] ModelFamily[model] = "gemini" -> "google"
    [] OTHER -> "throw"

(***************************************************************************)
(* rate-limiter                                                            *)
(***************************************************************************)
\* first instant of the next calendar month: 16 days 12 hours after clock 0
NextMonthStart == 396 * 60 * 60 * 1000

getMonthEndTimestamp(t) == NextMonthStart

Max0(x) == IF x > 0 THEN x ELSE 0

\* variant: the ceiling itself is still admitted (> instead of >=)
checkMessageQuotaOffByOne(tier, currentUsage, t) ==
  IF isUnlimited(tier)
  THEN [ allowed |-> TRUE, remaining |-> -1, limit |-> -1,
         resetAt |-> getMonthEndTimestamp(t), error |-> NoValue ]
  ELSE LET limit == getMessageLimit(tier)
           remaining == Max0(limit - currentUsage)
       IN IF currentUsage > limit
          THEN [ allowed |-> FALSE, remaining |-> 0, limit |-> limit,
                 resetAt |-> getMonthEndTimestamp(t),
                 error |-> "Monthly message limit reached" ]
          ELSE [ allowed |-> TRUE, remaining |-> remaining, limit |-> limit,
                 resetAt |-> getMonthEndTimestamp(t), error |-> NoValue ]

checkMessageQuota(tier, currentUsage, t) ==
  IF isUnlimited(tier)
  THEN [ allowed |-> TRUE, remaining |-> -1, limit |-> -1,
         resetAt |-> getMonthEndTimestamp(t), error |-> NoValue ]
  ELSE LET limit == getMessageLimit(tier)
           remaining == Max0(limit - currentUsage)
       IN IF currentUsage >= limit
          THEN [ allowed |-> FALSE, remaining |-> 0, limit |-> limit,
                 resetAt |-> getMonthEndTimestamp(t),
                 error |-> "Monthly message limit reached" ]
          ELSE [ allowed |-> TRUE, remaining |-> remaining, limit |-> limit,
                 resetAt |-> getMonthEndTimestamp(t), error |-> NoValue ]

\* variant: an allowed call inside a window does not count
ipCountsAfterNoIncrement(counts, ip, t) ==
  IF ip \notin DOMAIN counts \/ t > counts[ip].resetAt
  THEN [k \in DOMAIN counts \cup {ip} |->
          IF k = ip THEN [count |-> 1, resetAt |-> t + IP_RATE_WINDOW] ELSE counts[k]]
  ELSE counts

\* variant: a denied call starts the window over
ipCountsAfterExtendOnDeny(counts, ip, t) ==
  IF ip \notin DOMAIN counts \/ t > counts[ip].resetAt
  THEN [k \in DOMAIN counts \cup {ip} |->
          IF k = ip THEN [count |-> 1, resetAt |-> t + IP_RATE_WINDOW] ELSE counts[k]]
  ELSE IF counts[ip].count >= IP_RATE_LIMIT
       THEN [counts EXCEPT ![ip].resetAt = t + IP_RATE_WINDOW]
       ELSE [counts EXCEPT ![ip].count = @ + 1]

\* The Map ipRequestCounts is a function whose domain is the set of stored keys.
\* ipCountsAfter: the Map after checkIPRateLimit(ip) called at time t
ipCountsAfter(counts, ip, t) ==
  IF ip \notin DOMAIN counts \/ t > counts[ip].resetAt
  THEN [k \in DOMAIN counts \cup {ip} |->
          IF k = ip THEN [count |-> 1, resetAt |-> t + IP_RATE_WINDOW] ELSE counts[k]]
  ELSE IF counts[ip].count >= IP_RATE_LIMIT
       THEN counts
       ELSE [counts EXCEPT ![ip].count = @ + 1]

\* variant: the call at the ceiling is still reported allowed (> instead of >=)
checkIPRateLimitOffByOne(counts, ip, t) ==
  IF ip \notin DOMAIN counts \/ t > counts[ip].resetAt
  THEN [ allowed |-> TRUE, remaining |-> IP_RATE_LIMIT - 1, limit |-> IP_RATE_LIMIT,
         resetAt |-> t + IP_RATE_WINDOW, error |-> NoValue ]
  ELSE IF counts[ip].count > IP_RATE_LIMIT
       THEN [ allowed |-> FALSE, remaining |-> 0, limit |-> IP_RATE_LIMIT,
              resetAt |-> counts[ip].resetAt, error |-> "Too many requests" ]
       ELSE [ allowed |-> TRUE, remaining |-> IP_RATE_LIMIT - (counts[ip].count + 1),
              limit |-> IP_RATE_LIMIT, resetAt |-> counts[ip].resetAt,
              error |-> NoValue ]

\* checkIPRateLimit: the RateLimitResult of the call checkIPRateLimit(ip) at time t
checkIPRateLimit(counts, ip, t) ==
  IF ip \notin DOMAIN counts \/ t > counts[ip].resetAt
  THEN [ allowed |-> TRUE, remaining |-> IP_RATE_LIMIT - 1, limit |-> IP_RATE_LIMIT,
         resetAt |-> t + IP_RATE_WINDOW, error |-> NoValue ]
  ELSE IF counts[ip].count >= IP_RATE_LIMIT
       THEN [ allowed |-> FALSE, remaining |-> 0, limit |-> IP_RATE_LIMIT,
              resetAt |-> counts[ip].resetAt, error |-> "Too many requests" ]
       ELSE [ allowed |-> TRUE, remaining |-> IP_RATE_LIMIT - (counts[ip].count + 1),
              limit |-> IP_RATE_LIMIT, resetAt |-> counts[ip].resetAt,
              error |-> NoValue ]

\* Math.ceil(ms / 1000) for an integer number of milliseconds
CeilSeconds(ms) == IF ms % 1000 = 0 THEN ms \div 1000 ELSE (ms \div 1000) + 1

(***************************************************************************)
(* State                                                                   *)
(***************************************************************************)
VARIABLES
  now,              \* Date.now()
  ipRequestCounts,  \* rate-limiter: Map ip -> {count, resetAt}
  profiles,         \* table profiles: user -> subscription_tier
  apiKeys,          \* process.env: the vendors whose API key is configured
  usage_logs,       \* table usage_logs: rows of the current period
  messages,         \* table messages: rows inserted
  chats,            \* table chats: chat id -> updated_at
  pc,               \* where each request's handler stands
  body,             \* the JSON body each request carries, once read
  model,            \* parsed.model of each request
  chatId,           \* parsed.chatId of each request
  response,         \* what POST returned (kind "none" until it returns)
  events,           \* what controller.enqueue sent to the client, in order
  closed,           \* controller.close() was called
  emitted,          \* texts the adapter passed to onToken, in order
  fullContent,      \* the adapter's accumulated text
  usage,            \* the TokenUsage passed to onComplete
  existingRecord,   \* incrementMessageCount: <<row>> read by the select, <<>> for null
  trace,            \* per request: calls made to collaborators, with outcome
  probe,            \* argument and result of a pure function under test
  client            \* the chat page: its store, and the locals of sendMessage

dbVars == <<usage_logs, messages, chats>>
envVars == <<profiles, apiKeys, probe, client>>
streamVars == <<events, closed, emitted, fullContent, usage, existingRecord>>
reqVars == <<body, model, chatId, response>>
vars == <<now, ipRequestCounts, profiles, apiKeys, usage_logs, messages, chats,
          pc, body, model, chatId, response, events, closed, emitted, fullContent,
          usage, existingRecord, trace, probe, client>>

\* the requests in flight
Req == {"r1"}
IPs == {"203.0.113.7"}
UserId == "u1"
ChatIds == {"c1"}

\* instants the clock advances by, and the end of the modelled horizon
TickSteps == {450500, IP_RATE_WINDOW + 1}
MaxClock == IP_RATE_WINDOW + 1001

\* the texts an adapter streams, in generation order
TokenScript == <<"Hel", "lo", "!", "?">>

\* the usage objects an adapter reports
UsageReports ==
  { [prompt_tokens |-> 0, completion_tokens |-> 0, total_tokens |-> 0],
    [prompt_tokens |-> 5, completion_tokens |-> 7, total_tokens |-> 12] }

NoUsage == [prompt_tokens |-> 0, completion_tokens |-> 0, total_tokens |-> 0]

\* outcomes of one awaited storage call: data, {error}, or a rejected promise
StorageOutcomes == {"ok", "error", "throw"}

\* request bodies tried; json = FALSE is a body request.json() cannot parse
BodyModels == {"gpt-3.5-turbo", "gpt-4", "claude-3-opus-20240229", "gemini-pro",
               "gemini-2.0-flash", "llama-2-70b"}
BodyMessages ==
  { <<>>,
    <<[role |-> "user", content |-> "hi"]>>,
    <<[role |-> "user", content |-> ""]>>,
    <<[role |-> "system", content |-> "be brief"], [role |-> "user", content |-> "hi"]>> }
BodyChatIds == {NoValue, "c1", "not-a-uuid"}
MalformedBody == [json |-> FALSE, messages |-> <<>>, model |-> NoValue, chatId |-> NoValue]
Bodies ==
  {MalformedBody} \cup
  [json : {TRUE}, messages : BodyMessages, model : BodyModels, chatId : BodyChatIds]

\* usage rows the period can start from, per tier of the user
InitialCounts(tier) ==
  IF isUnlimited(tier) THEN {1000}
  ELSE {getMessageLimit(tier) - 1, getMessageLimit(tier)}

\* Responses.  retryAfter = -1: the response has no Retry-After header.
NoHeader == 0 - 1
NoResponse == [kind |-> "none", status |-> 0, error |-> NoValue, retryAfter |-> NoHeader]

\* NextResponse.json(body, {status, headers})
JsonResponse(status, error, retryAfter) ==
  [kind |-> "json", status |-> status, error |-> error, retryAfter |-> retryAfter]

\* new Response(stream, {headers: text/event-stream})
StreamResponse ==
  [kind |-> "stream", status |-> 200, error |-> NoValue, retryAfter |-> NoHeader]

\* the pure-function harness at rest
NoProbe == [fn |-> NoValue, tier |-> "free", used |-> 0, done |-> FALSE,
            result |-> [allowed |-> FALSE, remaining |-> 0, limit |-> 0,
                        resetAt |-> 0, error |-> NoValue]]

\* the chat page before any message is sent: the initial state of the store
\* (chatStore.ts 51-57) and no run of sendMessage.  wire is the part of the
\* response body not yet delivered; script, stream and handled keep, for the
\* current run, the event lines served, the bytes served and what the reader
\* did with them, and outcome how the run ended; calls counts the calls of
\* sendMessage, runs those that passed its guard, inFlight the runs that have
\* not reached the end of sendMessage; added is the length of the store's
\* messages when the current run had added the user's message.
NoClient ==
  [ pc |-> "idle", currentChat |-> FALSE, messages |-> <<>>,
    isLoading |-> FALSE, isStreaming |-> FALSE, streamingContent |-> "",
    error |-> NoValue, assistantContent |-> "", streamBuffer |-> "",
    thrown |-> NoValue, wire |-> "", script |-> <<>>,
    tail |-> [line |-> "", type |-> "none", text |-> ""],
    stream |-> "", handled |-> <<>>, outcome |-> NoValue, calls |-> 0, runs |-> 0,
    inFlight |-> 0, added |-> 0 ]

usageRow(id, n, tok) ==
  [id |-> id, user_id |-> UserId, messages_count |-> n, tokens_used |-> tok]

Init ==
  /\ now = 0
  /\ client = NoClient
  /\ ipRequestCounts \in
       UNION {[S -> [count : {IP_RATE_LIMIT - 1, IP_RATE_LIMIT},
                     resetAt : {IP_RATE_WINDOW}]] : S \in SUBSET IPs}
  /\ profiles \in [{UserId} -> Tiers]
  /\ apiKeys \in {Providers, Providers \ {"openai"}}
  /\ usage_logs \in
       {<<>>} \cup {<<usageRow(1, n, 100)>> : n \in InitialCounts(profiles[UserId])}
  /\ messages = <<>>
  /\ chats = [c \in ChatIds |-> 0]
  /\ pc = [r \in Req |-> "ip"]
  /\ body = [r \in Req |-> MalformedBody]
  /\ model = [r \in Req |-> NoValue]
  /\ chatId = [r \in Req |-> NoValue]
  /\ response = [r \in Req |-> NoResponse]
  /\ events = [r \in Req |-> <<>>]
  /\ closed = [r \in Req |-> FALSE]
  /\ emitted = [r \in Req |-> <<>>]
  /\ fullContent = [r \in Req |-> ""]
  /\ usage = [r \in Req |-> NoUsage]
  /\ existingRecord = [r \in Req |-> <<>>]
  /\ trace = [r \in Req |-> <<>>]
  /\ probe = NoProbe


\* the clock advances
Tick(d) ==
  /\ now + d <= MaxClock
  /\ now' = now + d
  /\ UNCHANGED <<ipRequestCounts, envVars, dbVars, pc, reqVars, streamVars, trace>>

(***************************************************************************)
(* validation: validateRequest(chatRequestSchema, body)                    *)
(***************************************************************************)
Roles == {"user", "assistant", "system"}

validMessage(m) ==
  /\ m.role \in Roles
  /\ Len(m.content) >= 1
  /\ Len(m.content) <= 32000

\* uuidSchema: the chat ids of the model stand for well-formed UUIDs
validUuid(x) == x \in ChatIds

\* TRUE iff safeParse succeeds (validateRequest returns), FALSE iff it throws
validateRequest(b) ==
  /\ b.json
  /\ Len(b.messages) >= 1
  /\ Len(b.messages) <= 100
  /\ \A i \in 1..Len(b.messages) : validMessage(b.messages[i])
  /\ b.model \in aiModelSchema
  /\ (b.chatId = NoValue \/ validUuid(b.chatId))

(***************************************************************************)
(* usage-tracker                                                           *)
(***************************************************************************)
\* .single(): the row when the query succeeds and matches exactly one, else null
single(rows, outcome) ==
  IF outcome = "ok" /\ Len(rows) = 1 THEN <<rows[1]>> ELSE <<>>

\* getUserUsage(...).messagesUsed
getUserUsage(rows, outcome) ==
  IF single(rows, outcome) = <<>> THEN 0 ELSE single(rows, outcome)[1].messages_count

\* incrementMessageCount, second half: the table after the update or the insert
usageLogsAfterWrite(rows, existing, tokensUsed) ==
  IF existing # <<>>
  THEN [i \in 1..Len(rows) |->
          IF rows[i].id = existing[1].id
          THEN [rows[i] EXCEPT !.messages_count = existing[1].messages_count + 1,
                               !.tokens_used = existing[1].tokens_used + tokensUsed]
          ELSE rows[i]]
  ELSE Append(rows, usageRow(Len(rows) + 1, 1, tokensUsed))

(***************************************************************************)
(* POST /api/chat, up to the streaming response                            *)
(***************************************************************************)
\* the handler of request r returns `resp` and ends
Return(r, resp) ==
  /\ response' = [response EXCEPT ![r] = resp]
  /\ pc' = [pc EXCEPT ![r] = "returned"]

Goto(r, where) ==
  /\ pc' = [pc EXCEPT ![r] = where]
  /\ UNCHANGED response

\* one more call of request r to a collaborator
Called(r, what, outcome) ==
  trace' = [trace EXCEPT ![r] = Append(@, [call |-> what, outcome |-> outcome])]

NoIpResponse == JsonResponse(400, "Could not determine client IP", NoHeader)

IpDeniedResponse(ipCheck, t) ==
  JsonResponse(429, ipCheck.error, CeilSeconds(ipCheck.resetAt - t))

UnauthorizedResponse == JsonResponse(401, "Unauthorized", NoHeader)

ProfileErrorResponse == JsonResponse(500, "Failed to fetch profile", NoHeader)

QuotaDeniedResponse(quotaCheck, t) == JsonResponse(429, quotaCheck.error, NoHeader)

ValidationFailedResponse == JsonResponse(400, "Validation failed", NoHeader)

ModelForbiddenResponse ==
  JsonResponse(403, "Your subscription tier does not include access to model", NoHeader)

UnknownModelResponse == JsonResponse(500, "Unknown model", NoHeader)

MissingKeyResponse == JsonResponse(500, "API key not configured", NoHeader)

\* variant: the handler does not consult the IP limiter before authenticating
CheckIPSkipped(r, ipHeader) ==
  /\ pc[r] = "ip"
  /\ Goto(r, "auth")
  /\ UNCHANGED <<now, ipRequestCounts, envVars, dbVars, streamVars, body, model,
                 chatId, trace>>

\* lines 191-204: client address and IP rate limit
CheckIP(r, ipHeader) ==
  /\ pc[r] = "ip"
  /\ IF ipHeader = NoValue
     THEN /\ Return(r, NoIpResponse)
          /\ UNCHANGED <<ipRequestCounts, trace>>
     ELSE LET ipCheck == checkIPRateLimit(ipRequestCounts, ipHeader, now) IN
          /\ ipRequestCounts' = ipCountsAfter(ipRequestCounts, ipHeader, now)
          /\ Called(r, "checkIPRateLimit", IF ipCheck.allowed THEN "ok" ELSE "denied")
          /\ IF ipCheck.allowed
             THEN Goto(r, "auth")
             ELSE Return(r, IpDeniedResponse(ipCheck, now))
  /\ UNCHANGED <<now, envVars, dbVars, streamVars, body, model, chatId>>

\* lines 206-212: supabase.auth.getUser()
Authenticate(r, user) ==
  /\ pc[r] = "auth"
  /\ Called(r, "getUser", IF user = NoValue THEN "none" ELSE "ok")
  /\ IF user = NoValue
     THEN Return(r, UnauthorizedResponse)
     ELSE Goto(r, "profile")
  /\ UNCHANGED <<now, ipRequestCounts, envVars, dbVars, streamVars, body, model, chatId>>

\* lines 214-226: the profile row; the tier is profiles[UserId] from here on
FetchProfile(r, outcome) ==
  /\ pc[r] = "profile"
  /\ Called(r, "profiles.select", outcome)
  /\ IF outcome = "error"
     THEN Return(r, ProfileErrorResponse)
     ELSE Goto(r, "quota")
  /\ UNCHANGED <<now, ipRequestCounts, envVars, dbVars, streamVars, body, model, chatId>>

\* lines 228-236: getUserUsage and checkMessageQuota
CheckQuota(r, outcome) ==
  /\ pc[r] = "quota"
  /\ LET used == getUserUsage(usage_logs, outcome)
         quotaCheck == checkMessageQuota(profiles[UserId], used, now)
     IN /\ Called(r, "usage_logs.select", outcome)
        /\ IF quotaCheck.allowed
           THEN Goto(r, "body")
           ELSE Return(r, QuotaDeniedResponse(quotaCheck, now))
  /\ UNCHANGED <<now, ipRequestCounts, envVars, dbVars, streamVars, body, model, chatId>>

\* variant: the vendor credential is looked up before the tier's model access
PreStreamAbortKeyFirst(b, tier, keys) ==
  IF ~validateRequest(b) THEN ValidationFailedResponse
  ELSE IF getProviderFromModel(b.model) = "throw" THEN UnknownModelResponse
  ELSE IF getProviderFromModel(b.model) \notin keys THEN MissingKeyResponse
  ELSE IF ~canAccessModel(tier, b.model) THEN ModelForbiddenResponse
  ELSE NoResponse

\* lines 238-284: what the handler answers to a parsed body without streaming,
\* or NoResponse when it goes on to create the provider and the stream
PreStreamAbort(b, tier, keys) ==
  IF ~validateRequest(b) THEN ValidationFailedResponse
  ELSE IF ~canAccessModel(tier, b.model) THEN ModelForbiddenResponse
  ELSE IF getProviderFromModel(b.model) = "throw" THEN UnknownModelResponse
  ELSE IF getProviderFromModel(b.model) \notin keys THEN MissingKeyResponse
  ELSE NoResponse

\* lines 238-387: body, model access, provider; then the ReadableStream is
\* constructed, its start() calls streamChat, and the 200 response is returned
HandleBody(r, b) ==
  /\ pc[r] = "body"
  /\ body' = [body EXCEPT ![r] = b]
  /\ LET abort == PreStreamAbort(b, profiles[UserId], apiKeys) IN
     IF abort # NoResponse
     THEN /\ Return(r, abort)
          /\ Called(r, "request.json", "rejected")
          /\ UNCHANGED <<model, chatId>>
     ELSE /\ model' = [model EXCEPT ![r] = b.model]
          /\ chatId' = [chatId EXCEPT ![r] = b.chatId]
          /\ response' = [response EXCEPT ![r] = StreamResponse]
          /\ pc' = [pc EXCEPT ![r] = "streaming"]
          /\ trace' = [trace EXCEPT ![r] =
                 @ \o << [call |-> "request.json", outcome |-> "ok"],
                         [call |-> "streamChat", outcome |-> "ok"] >>]
  /\ UNCHANGED <<now, ipRequestCounts, envVars, dbVars, streamVars>>

(***************************************************************************)
(* The event stream of one request                                         *)
(***************************************************************************)
TokenEvent(t) == [type |-> "token", token |-> t, usage |-> NoUsage, error |-> NoValue]

DoneEvent(u) == [type |-> "done", token |-> NoValue, usage |-> u, error |-> NoValue]

ErrorEvent(msg) == [type |-> "error", token |-> NoValue, usage |-> NoUsage, error |-> msg]

GenerationError == "An internal error occurred while generating the response"
FinalizeError == "An internal error occurred while finalizing the response"
PersistError == "Failed to persist message"

\* controller.enqueue: a closed controller takes no more chunks
Enqueue(evs, isClosed, ev) == IF isClosed THEN evs ELSE Append(evs, ev)

\* controller.enqueue(ev); controller.close(); and the callback ends
SendAndClose(r, ev) ==
  /\ events' = [events EXCEPT ![r] = Enqueue(@, closed[r], ev)]
  /\ closed' = [closed EXCEPT ![r] = TRUE]
  /\ pc' = [pc EXCEPT ![r] = "closed"]

\* lines 352-356: the catch of onComplete
OnCompleteCatch(r) == SendAndClose(r, ErrorEvent(FinalizeError))

(***************************************************************************)
(* Provider adapter: streamChat of the three vendors has one shape,        *)
(* try { for await (chunk) onToken(text); onComplete(full, usage) }        *)
(* catch { onError(e) }                                                    *)
(***************************************************************************)
\* lines 295-300: onToken
OnToken(r, token) ==
  /\ events' = [events EXCEPT ![r] = Enqueue(@, closed[r], TokenEvent(token))]
  /\ UNCHANGED <<closed, pc>>

\* the adapter reads one more chunk and hands its text to onToken
AdapterToken(r) ==
  /\ pc[r] = "streaming"
  /\ Len(emitted[r]) < MaxTokens
  /\ LET token == TokenScript[Len(emitted[r]) + 1] IN
     /\ emitted' = [emitted EXCEPT ![r] = Append(@, token)]
     /\ fullContent' = [fullContent EXCEPT ![r] = @ \o token]
     /\ OnToken(r, token)
  /\ UNCHANGED <<now, ipRequestCounts, envVars, dbVars, reqVars, usage,
                 existingRecord, trace>>

\* variant: the insert is issued whether or not the request names a chat
OnCompleteStartAlwaysInsert(r) == "insert"

\* lines 301-306, 338-340: onComplete up to its first await
OnCompleteStart(r) == IF chatId[r] # NoValue THEN "insert" ELSE "inc_read"

\* the upstream stream ends: onComplete(fullContent, usage)
AdapterComplete(r, u) ==
  /\ pc[r] = "streaming"
  /\ usage' = [usage EXCEPT ![r] = u]
  /\ Called(r, "onComplete", "ok")
  /\ pc' = [pc EXCEPT ![r] = OnCompleteStart(r)]
  /\ UNCHANGED <<now, ipRequestCounts, envVars, dbVars, reqVars, events, closed,
                 emitted, fullContent, existingRecord>>

\* variant: onError reports the error and then runs the usage accounting
OnErrorThenAccount(r) ==
  /\ events' = [events EXCEPT ![r] = Enqueue(@, closed[r], ErrorEvent(GenerationError))]
  /\ closed' = [closed EXCEPT ![r] = TRUE]
  /\ pc' = [pc EXCEPT ![r] = "inc_read"]

\* lines 358-367: onError
OnError(r) == SendAndClose(r, ErrorEvent(GenerationError))

\* the upstream call fails (before any chunk or after some): onError(error)
AdapterError(r) ==
  /\ pc[r] = "streaming"
  /\ Called(r, "onError", "ok")
  /\ OnError(r)
  /\ UNCHANGED <<now, ipRequestCounts, envVars, dbVars, reqVars, emitted,
                 fullContent, usage, existingRecord>>

(***************************************************************************)
(* onComplete: persistence and accounting                                  *)
(***************************************************************************)
\* variant: the row does not record the usage
messageRowWithoutUsage(r) ==
  [ request |-> r, chat_id |-> chatId[r], role |-> "assistant",
    content |-> fullContent[r], tokens_used |-> 0,
    model |-> model[r], provider |-> getProviderFromModel(model[r]) ]

\* the row of lines 308-315; `request` stands for the generated primary key
messageRow(r) ==
  [ request |-> r, chat_id |-> chatId[r], role |-> "assistant",
    content |-> fullContent[r], tokens_used |-> usage[r].total_tokens,
    model |-> model[r], provider |-> getProviderFromModel(model[r]) ]

\* variant: the error event is sent but the callback neither closes nor returns
OnInsertErrorNoReturn(r) ==
  /\ events' = [events EXCEPT ![r] = Enqueue(@, closed[r], ErrorEvent(PersistError))]
  /\ pc' = [pc EXCEPT ![r] = "touch"]
  /\ UNCHANGED closed

\* variant: the failed insert is only logged and finalization goes on
OnInsertErrorContinue(r) ==
  /\ pc' = [pc EXCEPT ![r] = "touch"]
  /\ UNCHANGED <<events, closed>>

\* lines 318-327: res.error after the insert
OnInsertError(r) == SendAndClose(r, ErrorEvent(PersistError))

\* lines 307-327: supabase.from("messages").insert
InsertMessage(r, outcome) ==
  /\ pc[r] = "insert"
  /\ Called(r, "messages.insert", outcome)
  /\ CASE outcome = "ok" ->
            /\ messages' = Append(messages, messageRow(r))
            /\ pc' = [pc EXCEPT ![r] = "touch"]
            /\ UNCHANGED <<events, closed>>
       [] outcome = "error" ->
            /\ OnInsertError(r)
            /\ UNCHANGED messages
       [] OTHER ->
            /\ OnCompleteCatch(r)
            /\ UNCHANGED messages
  /\ UNCHANGED <<now, ipRequestCounts, envVars, usage_logs, chats, reqVars,
                 emitted, fullContent, usage, existingRecord>>

\* lines 329-337: supabase.from("chats").update({updated_at})
TouchChat(r, outcome) ==
  /\ pc[r] = "touch"
  /\ Called(r, "chats.update", outcome)
  /\ CASE outcome = "ok" ->
            /\ chats' = [chats EXCEPT ![chatId[r]] = now]
            /\ pc' = [pc EXCEPT ![r] = "inc_read"]
            /\ UNCHANGED <<events, closed>>
       [] outcome = "error" ->
            /\ pc' = [pc EXCEPT ![r] = "inc_read"]
            /\ UNCHANGED <<chats, events, closed>>
       [] OTHER ->
            /\ OnCompleteCatch(r)
            /\ UNCHANGED chats
  /\ UNCHANGED <<now, ipRequestCounts, envVars, usage_logs, messages, reqVars,
                 emitted, fullContent, usage, existingRecord>>

\* incrementMessageCount, first half: createClient and the select of the row
IncrementRead(r, outcome) ==
  /\ pc[r] = "inc_read"
  /\ Called(r, "incrementMessageCount.select", outcome)
  /\ IF outcome = "throw"
     THEN /\ OnCompleteCatch(r)
          /\ UNCHANGED existingRecord
     ELSE /\ existingRecord' = [existingRecord EXCEPT ![r] = single(usage_logs, outcome)]
          /\ pc' = [pc EXCEPT ![r] = "inc_write"]
          /\ UNCHANGED <<events, closed>>
  /\ UNCHANGED <<now, ipRequestCounts, envVars, dbVars, reqVars, emitted,
                 fullContent, usage>>

\* variant: the done event does not carry the reported usage
OnCompleteEndNoUsage(r) == SendAndClose(r, DoneEvent(NoUsage))

\* lines 343-348: the terminal event of a finalized generation
OnCompleteEnd(r) == SendAndClose(r, DoneEvent(usage[r]))

\* incrementMessageCount, second half (update or insert), then lines 343-348
IncrementWrite(r, outcome) ==
  /\ pc[r] = "inc_write"
  /\ Called(r, "incrementMessageCount.write", outcome)
  /\ CASE outcome = "ok" ->
            /\ usage_logs' = usageLogsAfterWrite(usage_logs, existingRecord[r],
                                                 usage[r].total_tokens)
            /\ OnCompleteEnd(r)
       [] outcome = "error" ->
            /\ OnCompleteEnd(r)
            /\ UNCHANGED usage_logs
       [] OTHER ->
            /\ OnCompleteCatch(r)
            /\ UNCHANGED usage_logs
  /\ UNCHANGED <<now, ipRequestCounts, envVars, messages, chats, reqVars,
                 emitted, fullContent, usage, existingRecord>>

(***************************************************************************)
(* Specification                                                           *)
(***************************************************************************)
Next ==
  \/ \E d \in TickSteps : Tick(d)
  \/ \E r \in Req, ip \in IPs \cup {NoValue} : CheckIP(r, ip)
  \/ \E r \in Req, u \in {UserId, NoValue} : Authenticate(r, u)
  \/ \E r \in Req, o \in {"ok", "error"} : FetchProfile(r, o)
  \/ \E r \in Req, o \in {"ok", "error"} : CheckQuota(r, o)
  \/ \E r \in Req, b \in Bodies : HandleBody(r, b)
  \/ \E r \in Req : AdapterToken(r)
  \/ \E r \in Req, u \in UsageReports : AdapterComplete(r, u)
  \/ \E r \in Req : AdapterError(r)
  \/ \E r \in Req, o \in StorageOutcomes : InsertMessage(r, o)
  \/ \E r \in Req, o \in StorageOutcomes : TouchChat(r, o)
  \/ \E r \in Req, o \in StorageOutcomes : IncrementRead(r, o)
  \/ \E r \in Req, o \in StorageOutcomes : IncrementWrite(r, o)

Spec == Init /\ [][Next]_vars

(***************************************************************************)
(* The quota function on its own: every tier and usage count               *)
(***************************************************************************)
InitQuota ==
  /\ now = 0
  /\ client = NoClient
  /\ ipRequestCounts = <<>>
  /\ profiles = [u \in {UserId} |-> "free"]
  /\ apiKeys = Providers
  /\ usage_logs = <<>>
  /\ messages = <<>>
  /\ chats = [c \in ChatIds |-> 0]
  /\ pc = [r \in Req |-> "ip"]
  /\ body = [r \in Req |-> MalformedBody]
  /\ model = [r \in Req |-> NoValue]
  /\ chatId = [r \in Req |-> NoValue]
  /\ response = [r \in Req |-> NoResponse]
  /\ events = [r \in Req |-> <<>>]
  /\ closed = [r \in Req |-> FALSE]
  /\ emitted = [r \in Req |-> <<>>]
  /\ fullContent = [r \in Req |-> ""]
  /\ usage = [r \in Req |-> NoUsage]
  /\ existingRecord = [r \in Req |-> <<>>]
  /\ trace = [r \in Req |-> <<>>]
  /\ probe \in {[NoProbe EXCEPT !.fn = "checkMessageQuota", !.tier = t, !.used = n] :
                  t \in Tiers, n \in 0..MaxUsed}

EvaluateQuota ==
  /\ probe.fn = "checkMessageQuota"
  /\ ~probe.done
  /\ probe' = [probe EXCEPT !.done = TRUE,
                            !.result = checkMessageQuota(probe.tier, probe.used, now)]
  /\ UNCHANGED <<now, ipRequestCounts, profiles, apiKeys, client, dbVars, pc, reqVars,
                 streamVars, trace>>

NextQuota == EvaluateQuota

SpecQuota == InitQuota /\ [][NextQuota]_vars

(***************************************************************************)
(* One user sending requests one at a time within one period: request k+1  *)
(* arrives only after the handler and the callbacks of request k have      *)
(* ended.  probe.used remembers the messages_count the period opened with. *)
(***************************************************************************)
SeqReqs == 1..MaxRequests

\* what this user sends: a valid body for a model of every tier, with and
\* without a conversation identifier
SeqBodies ==
  [json : {TRUE}, messages : {<<[role |-> "user", content |-> "hi"]>>},
   model : {"gpt-3.5-turbo"}, chatId : {NoValue, "c1"}]

Ended(r) == pc[r] \in {"returned", "closed"}

InitSequential ==
  /\ now = 0
  /\ client = NoClient
  /\ ipRequestCounts = <<>>
  /\ profiles \in [{UserId} -> {"free", "pro"}]
  /\ apiKeys = Providers
  /\ \E n \in InitialCounts(profiles[UserId]) :
       /\ usage_logs = <<usageRow(1, n, 100)>>
       /\ probe = [NoProbe EXCEPT !.fn = "ledger", !.tier = profiles[UserId], !.used = n]
  /\ messages = <<>>
  /\ chats = [c \in ChatIds |-> 0]
  /\ pc = [r \in SeqReqs |-> "idle"]
  /\ body = [r \in SeqReqs |-> MalformedBody]
  /\ model = [r \in SeqReqs |-> NoValue]
  /\ chatId = [r \in SeqReqs |-> NoValue]
  /\ response = [r \in SeqReqs |-> NoResponse]
  /\ events = [r \in SeqReqs |-> <<>>]
  /\ closed = [r \in SeqReqs |-> FALSE]
  /\ emitted = [r \in SeqReqs |-> <<>>]
  /\ fullContent = [r \in SeqReqs |-> ""]
  /\ usage = [r \in SeqReqs |-> NoUsage]
  /\ existingRecord = [r \in SeqReqs |-> <<>>]
  /\ trace = [r \in SeqReqs |-> <<>>]

\* the client sends request r once its earlier requests have ended
Arrive(r) ==
  /\ pc[r] = "idle"
  /\ \A q \in SeqReqs : q < r => Ended(q)
  /\ pc' = [pc EXCEPT ![r] = "ip"]
  /\ UNCHANGED <<now, ipRequestCounts, envVars, dbVars, reqVars, streamVars, trace>>

NextSequential ==
  \/ \E r \in SeqReqs : Arrive(r)
  \/ \E r \in SeqReqs, ip \in IPs : CheckIP(r, ip)
  \/ \E r \in SeqReqs : Authenticate(r, UserId)
  \/ \E r \in SeqReqs : FetchProfile(r, "ok")
  \/ \E r \in SeqReqs, o \in {"ok", "error"} : CheckQuota(r, o)
  \/ \E r \in SeqReqs, b \in SeqBodies : HandleBody(r, b)
  \/ \E r \in SeqReqs, u \in UsageReports : AdapterComplete(r, u)
  \/ \E r \in SeqReqs : AdapterError(r)
  \/ \E r \in SeqReqs, o \in StorageOutcomes : InsertMessage(r, o)
  \/ \E r \in SeqReqs, o \in StorageOutcomes : TouchChat(r, o)
  \/ \E r \in SeqReqs, o \in StorageOutcomes : IncrementRead(r, o)
  \/ \E r \in SeqReqs, o \in StorageOutcomes : IncrementWrite(r, o)

SpecSequential == InitSequential /\ [][NextSequential]_vars

(***************************************************************************)
(* Two requests of the same user in flight at once, every storage call     *)
(* succeeding: each handler runs independently and each awaited call is    *)
(* one step, so the steps of the two requests interleave freely.           *)
(* probe.used remembers the messages_count the period opened with.         *)
(***************************************************************************)
Pair == {"r1", "r2"}

\* the ledger the period opens with: no row yet, or one row
OpeningLedgers(tier) ==
  {<<>>} \cup {<<usageRow(1, n, 100)>> : n \in InitialCounts(tier)}

InitConcurrent ==
  /\ now = 0
  /\ client = NoClient
  /\ ipRequestCounts = <<>>
  /\ profiles \in [{UserId} -> Tiers]
  /\ apiKeys = Providers
  /\ usage_logs \in OpeningLedgers(profiles[UserId])
  /\ probe = [NoProbe EXCEPT !.fn = "ledger", !.tier = profiles[UserId],
                             !.used = getUserUsage(usage_logs, "ok")]
  /\ messages = <<>>
  /\ chats = [c \in ChatIds |-> 0]
  /\ pc = [r \in Pair |-> "ip"]
  /\ body = [r \in Pair |-> MalformedBody]
  /\ model = [r \in Pair |-> NoValue]
  /\ chatId = [r \in Pair |-> NoValue]
  /\ response = [r \in Pair |-> NoResponse]
  /\ events = [r \in Pair |-> <<>>]
  /\ closed = [r \in Pair |-> FALSE]
  /\ emitted = [r \in Pair |-> <<>>]
  /\ fullContent = [r \in Pair |-> ""]
  /\ usage = [r \in Pair |-> NoUsage]
  /\ existingRecord = [r \in Pair |-> <<>>]
  /\ trace = [r \in Pair |-> <<>>]

NextConcurrent ==
  \/ \E r \in Pair, ip \in IPs : CheckIP(r, ip)
  \/ \E r \in Pair : Authenticate(r, UserId)
  \/ \E r \in Pair : FetchProfile(r, "ok")
  \/ \E r \in Pair : CheckQuota(r, "ok")
  \/ \E r \in Pair, b \in SeqBodies : HandleBody(r, b)
  \/ \E r \in Pair, u \in UsageReports : AdapterComplete(r, u)
  \/ \E r \in Pair : AdapterError(r)
  \/ \E r \in Pair : InsertMessage(r, "ok")
  \/ \E r \in Pair : TouchChat(r, "ok")
  \/ \E r \in Pair : IncrementRead(r, "ok")
  \/ \E r \in Pair : IncrementWrite(r, "ok")

SpecConcurrent == InitConcurrent /\ [][NextConcurrent]_vars

(***************************************************************************)
(* The IP limiter on its own: one identifier calling checkIPRateLimit      *)
(* again and again while the clock advances and the sweep runs.  probe     *)
(* keeps the caller's own account: when the current window was opened, how *)
(* many calls were made in it and how many of them were allowed.           *)
(***************************************************************************)
\* the clock reaches the reset time of a window opened at 0 exactly, and passes it by 1 ms
IpTickSteps == {IP_RATE_WINDOW \div 2, (IP_RATE_WINDOW \div 2) + 1}

NoIpProbe ==
  [fn |-> "checkIPRateLimit", tier |-> "free", used |-> 0, done |-> FALSE,
   result |-> NoProbe.result, windowStart |-> 0, windows |-> 0, allowedCalls |-> 0]

InitIP ==
  /\ now = 0
  /\ client = NoClient
  /\ ipRequestCounts = <<>>
  /\ profiles = [u \in {UserId} |-> "free"]
  /\ apiKeys = Providers
  /\ usage_logs = <<>>
  /\ messages = <<>>
  /\ chats = [c \in ChatIds |-> 0]
  /\ pc = [r \in Req |-> "ip"]
  /\ body = [r \in Req |-> MalformedBody]
  /\ model = [r \in Req |-> NoValue]
  /\ chatId = [r \in Req |-> NoValue]
  /\ response = [r \in Req |-> NoResponse]
  /\ events = [r \in Req |-> <<>>]
  /\ closed = [r \in Req |-> FALSE]
  /\ emitted = [r \in Req |-> <<>>]
  /\ fullContent = [r \in Req |-> ""]
  /\ usage = [r \in Req |-> NoUsage]
  /\ existingRecord = [r \in Req |-> <<>>]
  /\ trace = [r \in Req |-> <<>>]
  /\ probe = NoIpProbe

\* one call checkIPRateLimit(ip)
CallCheckIP(ip) ==
  /\ probe.used < IP_RATE_LIMIT + MaxExtraCalls
  /\ LET result == checkIPRateLimit(ipRequestCounts, ip, now)
         opens == ~probe.done \/ now > probe.windowStart + IP_RATE_WINDOW
         one == IF result.allowed THEN 1 ELSE 0
     IN /\ ipRequestCounts' = ipCountsAfter(ipRequestCounts, ip, now)
        /\ probe' = [probe EXCEPT
               !.done = TRUE,
               !.result = result,
               !.windowStart = IF opens THEN now ELSE @,
               !.windows = IF opens THEN @ + 1 ELSE @,
               !.used = IF opens THEN 1 ELSE @ + 1,
               !.allowedCalls = IF opens THEN one ELSE @ + one]
  /\ UNCHANGED <<now, profiles, apiKeys, client, dbVars, pc, reqVars, streamVars,
                 trace>>

\* variant: a record is swept from the instant of its reset time on
isExpiredAtReset(record, t) == t >= record.resetAt

\* cleanupExpiredEntries line 216: now > record.resetAt
isExpired(record, t) == t > record.resetAt

\* cleanupExpiredEntries, run by the 5-minute interval
cleanupExpiredEntries ==
  /\ \E k \in DOMAIN ipRequestCounts : isExpired(ipRequestCounts[k], now)
  /\ ipRequestCounts' =
       [k \in {x \in DOMAIN ipRequestCounts : ~isExpired(ipRequestCounts[x], now)} |->
          ipRequestCounts[k]]
  /\ UNCHANGED <<now, envVars, dbVars, pc, reqVars, streamVars, trace>>

NextIP ==
  \/ \E ip \in IPs : CallCheckIP(ip)
  \/ \E d \in IpTickSteps : Tick(d)
  \/ cleanupExpiredEntries

SpecIP == InitIP /\ [][NextIP]_vars

(***************************************************************************)
(* The three provider adapters on their own: streamChat(messages,          *)
(* callbacks) of OpenAIProvider, AnthropicProvider and GoogleProvider      *)
(* against an upstream that answers, streams chunks and fails at any       *)
(* point.  body[r] holds the arguments (the turn sequence, and the model   *)
(* whose vendor selects the adapter); trace[r] is the log of upstream      *)
(* operations and callbacks, in order.  The callbacks return normally.     *)
(***************************************************************************)
Turn(role, content) == [role |-> role, content |-> content]

TurnSequences ==
  { <<>>,
    <<Turn("user", "hi")>>,
    <<Turn("user", "")>>,
    <<Turn("user", " ")>>,
    <<Turn("system", "be brief")>>,
    <<Turn("system", "be brief"), Turn("user", "hi")>>,
    <<Turn("user", "hi"), Turn("assistant", "hello")>>,
    <<Turn("user", "hi"), Turn("assistant", "hello"), Turn("user", "more")>> }

\* one model per adapter
AdapterModels == {"gpt-4", "claude-3-opus-20240229", "gemini-pro"}

\* createAIProvider(provider, config): the adapter that serves call r
AdapterOf(r) == getProviderFromModel(body[r].model)

\* String.prototype.trim, for the blank characters the model uses (spaces)
RECURSIVE trimStart(_)
trimStart(str) ==
  IF Len(str) > 0 /\ SubSeq(str, 1, 1) = " "
  THEN trimStart(SubSeq(str, 2, Len(str)))
  ELSE str

RECURSIVE trimEnd(_)
trimEnd(str) ==
  IF Len(str) > 0 /\ SubSeq(str, Len(str), Len(str)) = " "
  THEN trimEnd(SubSeq(str, 1, Len(str) - 1))
  ELSE str

trim(str) == trimEnd(trimStart(str))

IsNotSystem(m) == m.role # "system"

\* messages.filter((m) => m.role !== "system")
conversationMessages(turns) == SelectSeq(turns, IsNotSystem)

\* GoogleProvider.streamChat lines 124-128: FALSE iff it throws
\* "No user message to send to Gemini" before startChat
hasLastMessage(turns) ==
  LET rest == conversationMessages(turns) IN
  /\ rest # <<>>
  /\ rest[Len(rest)].content # ""
  /\ trim(rest[Len(rest)].content) # ""

\* what the adapter of each vendor checks before its upstream request:
\* OpenAIProvider and AnthropicProvider check nothing
acceptsTurns(vendor, turns) ==
  IF vendor = "google" THEN hasLastMessage(turns) ELSE TRUE

\* one element of the upstream stream.  fault "malformed": reading the chunk
\* throws; fault "failed": the stream iterator throws (vendor error)
Chunk(kind, text, reported, fault) ==
  [kind |-> kind, text |-> text, reported |-> reported, fault |-> fault]

UpstreamChunks ==
  { Chunk("text", "Hel", <<>>, "none"),
    Chunk("text", "lo", <<>>, "none"),
    Chunk("text", "", <<>>, "none"),
    Chunk("other", "", <<>>, "none"),
    Chunk("other", "", <<[prompt_tokens |-> 5, completion_tokens |-> 7,
                          total_tokens |-> 12]>>, "none"),
    Chunk("text", "", <<>>, "malformed"),
    Chunk("text", "", <<>>, "failed") }

\* one entry of the log: an upstream operation or a callback, with the text
\* and the usage object it carries
Entry(what, outcome, u) == [call |-> what, outcome |-> outcome, usage |-> u]

Logged(r, what, outcome) == Append(trace[r], Entry(what, outcome, NoUsage))

ChunksRead(r) ==
  Cardinality({i \in 1..Len(trace[r]) : trace[r][i].call = "chunk"})

\* whether the adapter hands the text of a chunk to onToken: OpenAIProvider
\* and GoogleProvider skip empty text, AnthropicProvider forwards every
\* text_delta
forwardsText(vendor, chunk) ==
  /\ chunk.kind = "text"
  /\ (vendor = "anthropic" \/ chunk.text # "")

\* variant: the accumulator keeps the latest text only
accumulateLatest(full, text) == text

\* fullContent += content
accumulate(full, text) == full \o text

InitAdapter ==
  /\ now = 0
  /\ client = NoClient
  /\ ipRequestCounts = <<>>
  /\ profiles = [u \in {UserId} |-> "enterprise"]
  /\ apiKeys = Providers
  /\ usage_logs = <<>>
  /\ messages = <<>>
  /\ chats = [c \in ChatIds |-> 0]
  /\ pc = [r \in Req |-> "sc_call"]
  /\ body \in [Req -> [json : {TRUE}, messages : TurnSequences,
                        model : AdapterModels, chatId : {NoValue}]]
  /\ model = [r \in Req |-> body[r].model]
  /\ chatId = [r \in Req |-> NoValue]
  /\ response = [r \in Req |-> NoResponse]
  /\ events = [r \in Req |-> <<>>]
  /\ closed = [r \in Req |-> FALSE]
  /\ emitted = [r \in Req |-> <<>>]
  /\ fullContent = [r \in Req |-> ""]
  /\ usage = [r \in Req |-> NoUsage]
  /\ existingRecord = [r \in Req |-> <<>>]
  /\ trace = [r \in Req |-> <<>>]
  /\ probe = NoProbe

\* variant: the catch block swallows the failure
catchErrorSilently(r, log) ==
  /\ trace' = [trace EXCEPT ![r] = log]
  /\ pc' = [pc EXCEPT ![r] = "sc_resolved"]

\* catch (error) { callbacks.onError(...) }, after which streamChat returns
catchError(r, log) ==
  /\ trace' = [trace EXCEPT ![r] = Append(log, Entry("onError", "ok", NoUsage))]
  /\ pc' = [pc EXCEPT ![r] = "sc_resolved"]

\* callbacks.onComplete(fullContent, usage), after which streamChat returns
callOnComplete(r, log, u) ==
  /\ usage' = [usage EXCEPT ![r] = u]
  /\ trace' = [trace EXCEPT ![r] =
         Append(log, Entry("onComplete", fullContent[r], u))]
  /\ pc' = [pc EXCEPT ![r] = "sc_resolved"]

\* streamChat up to the answer of the upstream request
StreamChatRequest(r, outcome) ==
  /\ pc[r] = "sc_call"
  /\ IF ~acceptsTurns(AdapterOf(r), body[r].messages)
     THEN catchError(r, trace[r])
     ELSE IF outcome = "failed"
          THEN catchError(r, Logged(r, "upstream.request", outcome))
          ELSE /\ trace' = [trace EXCEPT ![r] = Logged(r, "upstream.request", outcome)]
               /\ pc' = [pc EXCEPT ![r] = "sc_stream"]
  /\ UNCHANGED <<now, ipRequestCounts, envVars, dbVars, reqVars, events, closed,
                 emitted, fullContent, usage, existingRecord>>

\* one iteration of `for await (const chunk of stream)`
StreamChatChunk(r, chunk) ==
  /\ pc[r] = "sc_stream"
  /\ ChunksRead(r) < MaxChunks
  /\ IF chunk.fault # "none"
     THEN /\ catchError(r, Logged(r, "chunk", chunk.fault))
          /\ UNCHANGED <<emitted, fullContent, usage>>
     ELSE /\ IF forwardsText(AdapterOf(r), chunk)
             THEN /\ fullContent' = [fullContent EXCEPT ![r] = accumulate(@, chunk.text)]
                  /\ emitted' = [emitted EXCEPT ![r] = Append(@, chunk.text)]
                  /\ trace' = [trace EXCEPT ![r] =
                         Append(Logged(r, "chunk", "ok"),
                                Entry("onToken", chunk.text, NoUsage))]
             ELSE /\ trace' = [trace EXCEPT ![r] =
                         IF AdapterOf(r) = "openai" /\ chunk.reported # <<>>
                         THEN Append(Logged(r, "chunk", "ok"),
                                     Entry("usage.reported", "ok", chunk.reported[1]))
                         ELSE Logged(r, "chunk", "ok")]
                  /\ UNCHANGED <<emitted, fullContent>>
          /\ usage' = [usage EXCEPT ![r] =
                 IF AdapterOf(r) = "openai" /\ chunk.reported # <<>>
                 THEN chunk.reported[1] ELSE @]
          /\ UNCHANGED pc
  /\ UNCHANGED <<now, ipRequestCounts, envVars, dbVars, reqVars, events, closed,
                 existingRecord>>

\* the upstream stream ends: OpenAIProvider completes with the usage seen
\* in-band, the other two go on to fetch the final response
StreamChatEnd(r) ==
  /\ pc[r] = "sc_stream"
  /\ IF AdapterOf(r) = "openai"
     THEN callOnComplete(r, Logged(r, "stream.end", "ok"), usage[r])
     ELSE /\ trace' = [trace EXCEPT ![r] = Logged(r, "stream.end", "ok")]
          /\ pc' = [pc EXCEPT ![r] = "sc_usage"]
          /\ UNCHANGED usage
  /\ UNCHANGED <<now, ipRequestCounts, envVars, dbVars, reqVars, events, closed,
                 emitted, fullContent, existingRecord>>

\* await stream.finalMessage() / await result.response, then onComplete
StreamChatUsage(r, outcome, u) ==
  /\ pc[r] = "sc_usage"
  /\ IF outcome = "failed"
     THEN /\ catchError(r, Logged(r, "upstream.usage", outcome))
          /\ UNCHANGED usage
     ELSE callOnComplete(r, Append(Logged(r, "upstream.usage", "ok"),
                                   Entry("usage.reported", "ok", u)), u)
  /\ UNCHANGED <<now, ipRequestCounts, envVars, dbVars, reqVars, events, closed,
                 emitted, fullContent, existingRecord>>

NextAdapter ==
  \/ \E r \in Req, o \in {"ok", "failed"} : StreamChatRequest(r, o)
  \/ \E r \in Req, c \in UpstreamChunks : StreamChatChunk(r, c)
  \/ \E r \in Req : StreamChatEnd(r)
  \/ \E r \in Req, o \in {"ok", "failed"}, u \in UsageReports : StreamChatUsage(r, o, u)

SpecAdapter == InitAdapter /\ [][NextAdapter]_vars

(***************************************************************************)
(* The provider factory's vendor resolution on its own: every identifier   *)
(* of ModelIds                                                             *)
(***************************************************************************)
InitVendor ==
  /\ now = 0
  /\ client = NoClient
  /\ ipRequestCounts = <<>>
  /\ profiles = [u \in {UserId} |-> "free"]
  /\ apiKeys = Providers
  /\ usage_logs = <<>>
  /\ messages = <<>>
  /\ chats = [c \in ChatIds |-> 0]
  /\ pc = [r \in Req |-> "ip"]
  /\ body = [r \in Req |-> MalformedBody]
  /\ model = [r \in Req |-> NoValue]
  /\ chatId = [r \in Req |-> NoValue]
  /\ response = [r \in Req |-> NoResponse]
  /\ events = [r \in Req |-> <<>>]
  /\ closed = [r \in Req |-> FALSE]
  /\ emitted = [r \in Req |-> <<>>]
  /\ fullContent = [r \in Req |-> ""]
  /\ usage = [r \in Req |-> NoUsage]
  /\ existingRecord = [r \in Req |-> <<>>]
  /\ trace = [r \in Req |-> <<>>]
  /\ probe \in [fn : {"getProviderFromModel"}, model : ModelIds, done : {FALSE},
                 result : {NoValue}]

EvaluateVendor ==
  /\ probe.fn = "getProviderFromModel"
  /\ ~probe.done
  /\ probe' = [probe EXCEPT !.done = TRUE, !.result = getProviderFromModel(probe.model)]
  /\ UNCHANGED <<now, ipRequestCounts, profiles, apiKeys, client, dbVars, pc, reqVars,
                 streamVars, trace>>

NextVendor == EvaluateVendor

SpecVendor == InitVendor /\ [][NextVendor]_vars

(***************************************************************************)
(* A client that goes away while the response is streaming.  The runtime   *)
(* cancels the response's ReadableStream; the underlying source passed at  *)
(* line 288 has no cancel() and streamChat gets no abort signal, so the    *)
(* handler learns of it only when controller.enqueue throws on the         *)
(* cancelled stream.  closed[r] without a terminal event in events[r] is   *)
(* a stream the client cancelled.                                          *)
(***************************************************************************)
\* the client disconnects before it has seen a terminal event
Disconnect(r) ==
  /\ response[r].kind = "stream"
  /\ ~closed[r]
  /\ closed' = [closed EXCEPT ![r] = TRUE]
  /\ Called(r, "client.disconnect", "ok")
  /\ UNCHANGED <<now, ipRequestCounts, envVars, dbVars, pc, reqVars, events,
                 emitted, fullContent, usage, existingRecord>>

\* a token relayed to a client that is still there
RelayToken(r) == ~closed[r] /\ AdapterToken(r)

\* the next chunk after the client went away: enqueue throws inside onToken,
\* the adapter's catch calls onError, whose enqueue throws as well; streamChat
\* rejects and the catch of start() (lines 369-377) throws on its enqueue too
TokenAfterDisconnect(r) ==
  /\ pc[r] = "streaming"
  /\ closed[r]
  /\ Len(emitted[r]) < MaxTokens
  /\ LET token == TokenScript[Len(emitted[r]) + 1] IN
     /\ emitted' = [emitted EXCEPT ![r] = Append(@, token)]
     /\ fullContent' = [fullContent EXCEPT ![r] = @ \o token]
  /\ Called(r, "onError", "throw")
  /\ pc' = [pc EXCEPT ![r] = "closed"]
  /\ UNCHANGED <<now, ipRequestCounts, envVars, dbVars, reqVars, events, closed,
                 usage, existingRecord>>

NextDisconnect ==
  \/ \E r \in Req, ip \in IPs : CheckIP(r, ip)
  \/ \E r \in Req : Authenticate(r, UserId)
  \/ \E r \in Req : FetchProfile(r, "ok")
  \/ \E r \in Req : CheckQuota(r, "ok")
  \/ \E r \in Req, b \in SeqBodies : HandleBody(r, b)
  \/ \E r \in Req : Disconnect(r)
  \/ \E r \in Req : RelayToken(r)
  \/ \E r \in Req : TokenAfterDisconnect(r)
  \/ \E r \in Req, u \in UsageReports : AdapterComplete(r, u)
  \/ \E r \in Req : AdapterError(r)
  \/ \E r \in Req, o \in StorageOutcomes : InsertMessage(r, o)
  \/ \E r \in Req, o \in StorageOutcomes : TouchChat(r, o)
  \/ \E r \in Req, o \in StorageOutcomes : IncrementRead(r, o)
  \/ \E r \in Req, o \in StorageOutcomes : IncrementWrite(r, o)

SpecDisconnect == Init /\ [][NextDisconnect]_vars

\* the server side at rest, for specifications of one component alone
ServerAtRestExceptProbe ==
  /\ now = 0
  /\ ipRequestCounts = <<>>
  /\ profiles = [u \in {UserId} |-> "free"]
  /\ apiKeys = Providers
  /\ usage_logs = <<>>
  /\ messages = <<>>
  /\ chats = [c \in ChatIds |-> 0]
  /\ pc = [r \in Req |-> "ip"]
  /\ body = [r \in Req |-> MalformedBody]
  /\ model = [r \in Req |-> NoValue]
  /\ chatId = [r \in Req |-> NoValue]
  /\ response = [r \in Req |-> NoResponse]
  /\ events = [r \in Req |-> <<>>]
  /\ closed = [r \in Req |-> FALSE]
  /\ emitted = [r \in Req |-> <<>>]
  /\ fullContent = [r \in Req |-> ""]
  /\ usage = [r \in Req |-> NoUsage]
  /\ existingRecord = [r \in Req |-> <<>>]
  /\ trace = [r \in Req |-> <<>>]

ServerAtRest == ServerAtRestExceptProbe /\ probe = NoProbe

(***************************************************************************)
(* The tier table's functions on their own: canAccessModel for every tier  *)
(* and model identifier, getSubscriptionLimits for tier names of any kind. *)
(***************************************************************************)
\* tier names a caller passes as a plain string
TierNames ==
  Tiers \cup ObjectPrototypeKeys \cup
  {"unknown", "", "Free", "PRO", "premium", "basic", "team", "admin", "null"}

NoTierProbe ==
  [fn |-> NoValue, tier |-> NoValue, model |-> NoValue, done |-> FALSE,
   allowed |-> FALSE, limits |-> Looked("undefined", NoValue)]

InitTiers ==
  /\ ServerAtRestExceptProbe
  /\ client = NoClient
  /\ probe \in
       {[NoTierProbe EXCEPT !.fn = "canAccessModel", !.tier = t, !.model = m] :
          t \in Tiers, m \in ModelIds}
       \cup {[NoTierProbe EXCEPT !.fn = "getSubscriptionLimits", !.tier = t] :
               t \in TierNames}

EvaluateCanAccessModel ==
  /\ probe.fn = "canAccessModel"
  /\ ~probe.done
  /\ probe' = [probe EXCEPT !.done = TRUE,
                            !.allowed = canAccessModel(probe.tier, probe.model)]
  /\ UNCHANGED <<now, ipRequestCounts, profiles, apiKeys, client, dbVars, pc, reqVars,
                 streamVars, trace>>

EvaluateSubscriptionLimits ==
  /\ probe.fn = "getSubscriptionLimits"
  /\ ~probe.done
  /\ probe' = [probe EXCEPT !.done = TRUE,
                            !.limits = getSubscriptionLimits(probe.tier)]
  /\ UNCHANGED <<now, ipRequestCounts, profiles, apiKeys, client, dbVars, pc, reqVars,
                 streamVars, trace>>

NextTiers == EvaluateCanAccessModel \/ EvaluateSubscriptionLimits

SpecTiers == InitTiers /\ [][NextTiers]_vars

(***************************************************************************)
(* The IP limiter under several identifiers, with a record of every call:  *)
(* probe keeps the identifier and result of the last call, how many calls  *)
(* each identifier made and how many were allowed at each instant, and the *)
(* Map and result the same calls give when no sweep ever runs.             *)
(***************************************************************************)
Identifiers == {"203.0.113.7", "198.51.100.9"}

\* the instants at which calls are made: the opening of a window, its reset
\* time, and 1 ms past it
Instants == {0, IP_RATE_WINDOW, IP_RATE_WINDOW + 1}

\* the clock goes from 0 to the reset time of a window opened at 0, or past it
LimiterTicks == {IP_RATE_WINDOW, IP_RATE_WINDOW + 1}

\* the clock goes from 0 to the reset time, and from there 1 ms further
BurstTicks == {IP_RATE_WINDOW, 1}

\* the clock advances to the next instant of calls
Advance(d) == now + d \in Instants /\ Tick(d)

\* calls one identifier makes at one instant: the first goes past the ceiling,
\* the others make a few
CallsAtOnce(ip) ==
  IF ip = "203.0.113.7" THEN IP_RATE_LIMIT + MaxExtraCalls ELSE MaxExtraCalls

NoLimiterProbe ==
  [fn |-> "checkIPRateLimit", ip |-> NoValue, done |-> FALSE, result |-> NoProbe.result,
   calls |-> [i \in Identifiers |-> [t \in Instants |-> 0]],
   allowed |-> [i \in Identifiers |-> [t \in Instants |-> 0]],
   unswept |-> <<>>, unsweptResult |-> NoProbe.result]

InitLimiter ==
  /\ ServerAtRestExceptProbe
  /\ client = NoClient
  /\ probe = NoLimiterProbe

\* one call checkIPRateLimit(ip), recorded
CallCheckIPRateLimit(ip) ==
  /\ probe.calls[ip][now] < CallsAtOnce(ip)
  /\ LET result == checkIPRateLimit(ipRequestCounts, ip, now)
         one == IF result.allowed THEN 1 ELSE 0
     IN /\ ipRequestCounts' = ipCountsAfter(ipRequestCounts, ip, now)
        /\ probe' = [probe EXCEPT
               !.ip = ip, !.done = TRUE, !.result = result,
               !.calls[ip][now] = @ + 1,
               !.allowed[ip][now] = @ + one,
               !.unswept = ipCountsAfter(@, ip, now),
               !.unsweptResult = checkIPRateLimit(probe.unswept, ip, now)]
  /\ UNCHANGED <<now, profiles, apiKeys, client, dbVars, pc, reqVars, streamVars,
                 trace>>

NextLimiter ==
  \/ \E ip \in Identifiers : CallCheckIPRateLimit(ip)
  \/ \E d \in LimiterTicks : Advance(d)
  \/ cleanupExpiredEntries

SpecLimiter == InitLimiter /\ [][NextLimiter]_vars

\* one identifier calling at the opening of a window, at its reset time and
\* right after it
NextBurst ==
  \/ CallCheckIPRateLimit("203.0.113.7")
  \/ \E d \in BurstTicks : Advance(d)
  \/ cleanupExpiredEntries

SpecBurst == InitLimiter /\ [][NextBurst]_vars

(***************************************************************************)
(* The chat page (the client of the relay): sendMessage and its reader of  *)
(* the event stream.  A response body is a string of characters; the       *)
(* transport delivers it in chunks cut at any position.                    *)
(***************************************************************************)
serverVars == <<now, ipRequestCounts, profiles, apiKeys, probe, dbVars, pc, reqVars,
                streamVars, trace>>

\* the lines of the relay's wire format (part_003: `data: ${JSON.stringify(..)}`)
TokenLine(t) == "data: {\"token\":\"" \o t \o "\"}"
DoneLine == "data: {\"done\":true,\"usage\":{\"total_tokens\":12}}"
ErrorLine(msg) == "data: {\"error\":\"" \o msg \o "\"}"
\* a line that is not JSON, and a token line cut short by the end of the body
MalformedLine == "data: {bad json"
TruncatedLine == "data: {\"token\":\"He"

\* one line served, with what a reader is to make of it once it is complete
Served(line, type, text) == [line |-> line, type |-> type, text |-> text]

EventLines ==
  { Served(TokenLine("Hel"), "token", "Hel"),
    Served(TokenLine("lo"), "token", "lo"),
    Served(DoneLine, "done", ""),
    Served(ErrorLine(PersistError), "error", PersistError),
    Served(MalformedLine, "warn", "") }

\* what may follow the last complete line: nothing, or a line the body ends in
\* without a newline
NoTail == Served("", "none", "")
Tails ==
  { NoTail,
    Served(TruncatedLine, "warn", ""),
    Served(DoneLine, "done", ""),
    Served(ErrorLine(PersistError), "error", PersistError) }

Scripts == UNION {[1..n -> EventLines] : n \in 0..MaxLines}

\* the bytes of a body: every complete line is followed by "\n\n"
RECURSIVE Serialize(_)
Serialize(script) ==
  IF script = <<>> THEN ""
  ELSE Head(script).line \o "\n\n" \o Serialize(Tail(script))

\* the value JSON.parse returns; ok = FALSE when it throws a SyntaxError
NoFields == [ok |-> TRUE, token |-> "", done |-> FALSE, total_tokens |-> 0, error |-> ""]

JSONparse(text) ==
  CASE text = "{\"token\":\"Hel\"}" -> [NoFields EXCEPT !.token = "Hel"]
    [] text = "{\"token\":\"lo\"}" -> [NoFields EXCEPT !.token = "lo"]
    [] text = "{\"done\":true,\"usage\":{\"total_tokens\":12}}" ->
         [NoFields EXCEPT !.done = TRUE, !.total_tokens = 12]
    [] text = "{\"error\":\"Failed to persist message\"}" ->
         [NoFields EXCEPT !.error = PersistError]
    [] OTHER -> [NoFields EXCEPT !.ok = FALSE]

\* String.prototype.split("\n")
RECURSIVE split(_)
split(str) ==
  LET hits == {i \in 1..Len(str) : SubSeq(str, i, i) = "\n"} IN
  IF hits = {} THEN <<str>>
  ELSE LET i == CHOOSE i \in hits : \A j \in hits : i <= j
       IN <<SubSeq(str, 1, i - 1)>> \o split(SubSeq(str, i + 1, Len(str)))

\* one entry of the reader's record of what it did
Handled(type, text) == [type |-> type, text |-> text]

\* the Message objects of the store, by the fields the page fills in
userMessage(input) == [role |-> "user", content |-> trim(input), tokens_used |-> 0]
assistantMessage(content, total) ==
  [role |-> "assistant", content |-> content, tokens_used |-> total]

\* lines 150-168 and 187-204: if (data?.token) ..; if (data?.done) ..
applyTokenAndDone(c, data) ==
  LET c1 == IF data.token # ""
            THEN [c EXCEPT !.assistantContent = @ \o data.token,
                           !.streamingContent = @ \o data.token,
                           !.handled = Append(@, Handled("token", data.token))]
            ELSE c
  IN IF data.done
     THEN [c1 EXCEPT
             !.messages = Append(@, assistantMessage(c1.assistantContent,
                                                     data.total_tokens)),
             !.handled = Append(@, Handled("done", c1.assistantContent))]
     ELSE c1

\* lines 135-173: the body of `for (const line of lines)`; thrown holds the
\* message of the Error that leaves the loop
processLine(c, line) ==
  LET trimmedLine == trim(line) IN
  IF ~startsWith(trimmedLine, "data: ") THEN c
  ELSE LET data == JSONparse(SubSeq(trimmedLine, 7, Len(trimmedLine))) IN
       IF ~data.ok THEN [c EXCEPT !.handled = Append(@, Handled("warn", ""))]
       ELSE LET c2 == applyTokenAndDone(c, data) IN
            IF data.error # ""
            THEN [c2 EXCEPT !.thrown = data.error,
                            !.handled = Append(@, Handled("error", data.error))]
            ELSE c2

RECURSIVE processLines(_, _)
processLines(c, lines) ==
  IF lines = <<>> \/ c.thrown # NoValue THEN c
  ELSE processLines(processLine(c, Head(lines)), Tail(lines))

\* lines 179-213: the body of `for (const tline of trailingLines)`; its catch
\* takes a SyntaxError and the Error of an error event alike
processTrailingLine(c, tline) ==
  LET trimmedLine == trim(tline) IN
  IF ~startsWith(trimmedLine, "data: ") THEN c
  ELSE LET data == JSONparse(SubSeq(trimmedLine, 7, Len(trimmedLine))) IN
       IF ~data.ok THEN [c EXCEPT !.handled = Append(@, Handled("warn", ""))]
       ELSE LET c2 == applyTokenAndDone(c, data) IN
            IF data.error # ""
            THEN [c2 EXCEPT !.handled = Append(@, Handled("warn", ""))]
            ELSE c2

RECURSIVE processTrailingLines(_, _)
processTrailingLines(c, lines) ==
  IF lines = <<>> THEN c
  ELSE processTrailingLines(processTrailingLine(c, Head(lines)), Tail(lines))

\* variant: what follows the last newline of a chunk is not kept
dropPartialLine(lines) == ""

\* line 133: streamBuffer = lines.pop() || ""
keepPartialLine(lines) == lines[Len(lines)]

\* lines 129-173: one turn of the read loop on the chunk `value`
readLoopTurn(c, value) ==
  LET lines == split(c.streamBuffer \o value) IN
  processLines([c EXCEPT !.streamBuffer = keepPartialLine(lines)],
               SubSeq(lines, 1, Len(lines) - 1))

\* lines 176-217: after the loop
afterReadLoop(c) ==
  IF trim(c.streamBuffer) # ""
  THEN [processTrailingLines(c, split(c.streamBuffer)) EXCEPT !.streamBuffer = ""]
  ELSE c

\* lines 218-219: catch (error) { setError(error.message) }
catchError_sendMessage(c) == [c EXCEPT !.error = c.thrown, !.thrown = NoValue]

\* lines 220-224: finally; the run of sendMessage is over
finallyBlock(c, how) ==
  [c EXCEPT !.isLoading = FALSE, !.isStreaming = FALSE, !.streamingContent = "",
            !.pc = "idle", !.outcome = how, !.inFlight = @ - 1]

\* reader.read() resolves with the next n characters of the body
ReadChunk(n) ==
  /\ client.pc = "reading"
  /\ n \in 1..Len(client.wire)
  /\ LET c == readLoopTurn([client EXCEPT !.wire = SubSeq(@, n + 1, Len(@))],
                           SubSeq(client.wire, 1, n))
     IN client' = IF c.thrown # NoValue
                  THEN finallyBlock(catchError_sendMessage(c), "threw")
                  ELSE c
  /\ UNCHANGED serverVars

\* reader.read() resolves with done: true once the whole body was delivered
ReadEnd ==
  /\ client.pc = "reading"
  /\ client.wire = ""
  /\ client' = finallyBlock(afterReadLoop(client), "ended")
  /\ UNCHANGED serverVars

\* the page at line 121: the message "hi" was sent and the response is ok
Reading(script, tail) ==
  [NoClient EXCEPT
     !.pc = "reading", !.currentChat = TRUE, !.messages = <<userMessage("hi")>>,
     !.isLoading = TRUE, !.isStreaming = TRUE,
     !.script = script, !.tail = tail,
     !.stream = Serialize(script) \o tail.line,
     !.wire = Serialize(script) \o tail.line,
     !.calls = 1, !.runs = 1, !.inFlight = 1, !.added = 1]

\* The reader on its own: every body of at most MaxLines complete lines
InitReader ==
  /\ ServerAtRest
  /\ client \in {Reading(script, tail) : script \in Scripts, tail \in Tails}

NextReader ==
  \/ \E n \in 1..Len(client.wire) : ReadChunk(n)
  \/ ReadEnd

SpecReader == InitReader /\ [][NextReader]_vars

(***************************************************************************)
(* sendMessage as a whole: the guard, the fetch, the read loop and the      *)
(* finally block, against the bodies the relay serves (token events in      *)
(* order, then at most one terminal event) and a transport that may cut a   *)
(* body short or fail.  The page is rendered again between two user events, *)
(* so each call of sendMessage sees the flags of the store.                 *)
(***************************************************************************)
\* what the user has typed when sendMessage is called
Inputs == {"", "  ", "hi"}

\* the events of a generation, in order
RelayTokens == <<Served(TokenLine("Hel"), "token", "Hel"),
                 Served(TokenLine("lo"), "token", "lo")>>

\* the bodies of a 200 response: some tokens, then done, an error event, or
\* nothing more because the connection ended early, in the middle of a line
\* or between two
ServedBodies ==
  { [script |-> SubSeq(RelayTokens, 1, k) \o term, tail |-> NoTail] :
      k \in 0..Len(RelayTokens),
      term \in { <<>>, <<Served(DoneLine, "done", "")>>,
                 <<Served(ErrorLine(PersistError), "error", PersistError)>> } }
  \cup { [script |-> SubSeq(RelayTokens, 1, 1),
          tail |-> Served(TruncatedLine, "warn", "")] }

\* variant: the guard looks at the input only
sendMessageReturnsOnBlankOnly(c, input) == trim(input) = ""

\* line 60: if (!input.trim() || isLoading || isStreaming) return
sendMessageReturnsEarly(c, input) ==
  trim(input) = "" \/ c.isLoading \/ c.isStreaming

\* lines 59-87: sendMessage up to the fetch
SendMessage(input) ==
  /\ client.calls < MaxRequests
  /\ client' =
       IF sendMessageReturnsEarly(client, input)
       THEN [client EXCEPT !.calls = @ + 1]
       ELSE [client EXCEPT
               !.calls = @ + 1, !.runs = @ + 1, !.inFlight = @ + 1,
               !.currentChat = TRUE,
               !.messages = Append(IF client.currentChat THEN @ ELSE <<>>,
                                   userMessage(input)),
               !.added = Len(IF client.currentChat THEN client.messages ELSE <<>>) + 1,
               !.isLoading = TRUE, !.isStreaming = TRUE, !.streamingContent = "",
               !.pc = "fetching",
               !.assistantContent = "", !.streamBuffer = "", !.wire = "",
               !.script = <<>>, !.tail = NoTail, !.stream = "",
               !.handled = <<>>, !.outcome = NoValue]
  /\ UNCHANGED serverVars

\* lines 89-116: fetch rejects, or resolves with a response that is not ok
FetchFails(how) ==
  /\ client.pc = "fetching"
  /\ client' = finallyBlock(
                 catchError_sendMessage([client EXCEPT !.thrown = how]), "no stream")
  /\ UNCHANGED serverVars

\* lines 89, 102, 118-123: fetch resolves with a 200 response and a body
FetchResolves(b) ==
  /\ client.pc = "fetching"
  /\ client' = [client EXCEPT
                  !.pc = "reading", !.assistantContent = "", !.streamBuffer = "",
                  !.script = b.script, !.tail = b.tail,
                  !.stream = Serialize(b.script) \o b.tail.line,
                  !.wire = Serialize(b.script) \o b.tail.line]
  /\ UNCHANGED serverVars

\* line 126: reader.read() rejects (the connection was reset)
ReadFails ==
  /\ client.pc = "reading"
  /\ client' = finallyBlock(
                 catchError_sendMessage([client EXCEPT !.thrown = "network error"]),
                 "read failed")
  /\ UNCHANGED serverVars

InitClient ==
  /\ ServerAtRest
  /\ client = NoClient

\* sizes of the chunks the transport delivers to the page: single characters,
\* a few lines' worth, or all that is left of the body
ChunkSizes == {n \in {1, 40, Len(client.wire)} : 1 <= n /\ n <= Len(client.wire)}

\* every awaited promise of sendMessage settles: fetch() rejects or resolves,
\* reader.read() rejects, reports the end, or resolves with a chunk
ClientSettles ==
  \/ \E how \in {"Failed to fetch", "Failed to send message", "No response stream"} :
       FetchFails(how)
  \/ \E b \in ServedBodies : FetchResolves(b)
  \/ ReadFails
  \/ ReadEnd
  \/ \E n \in ChunkSizes : ReadChunk(n)

NextClient ==
  \/ \E input \in Inputs : SendMessage(input)
  \/ ClientSettles

SpecClient == InitClient /\ [][NextClient]_vars /\ WF_vars(ClientSettles)

(***************************************************************************)
(* Properties                                                              *)
(***************************************************************************)
Calls(r) == {trace[r][i].call : i \in 1..Len(trace[r])}

CalledWith(r, what, outcome) ==
  \E i \in 1..Len(trace[r]) : trace[r][i].call = what /\ trace[r][i].outcome = outcome

Threw(r) == \E i \in 1..Len(trace[r]) : trace[r][i].outcome = "throw"

IsToken(e) == e.type = "token"
IsTerminal(e) == e.type \in {"done", "error"}

TokenEvents(r) == SelectSeq(events[r], IsToken)
TerminalEvents(r) == SelectSeq(events[r], IsTerminal)

RowsOf(r) == {i \in 1..Len(messages) : messages[i].request = r}

StorageCalls == {"messages.insert", "chats.update", "incrementMessageCount.select",
                 "incrementMessageCount.write"}

Admitted(r) == response[r].kind = "stream"

\* C1: on an admitted request the client sees the adapter's tokens in emission
\* order, then exactly one terminal event (done or error) as the last event, and
\* the stream is closed exactly when that terminal event has been sent; a request
\* whose callbacks have all run has its terminal event, and an admitted request
\* without one can always take a step.
C1_OneTerminalAfterTokens ==
  \A r \in Req :
    /\ (~Admitted(r)) => (events[r] = <<>> /\ ~closed[r])
    /\ \A i \in 1..Len(events[r]) : IsToken(events[r][i]) \/ IsTerminal(events[r][i])
    /\ TokenEvents(r) = [i \in 1..Len(emitted[r]) |-> TokenEvent(emitted[r][i])]
    /\ \A i \in 1..Len(emitted[r]) : events[r][i] = TokenEvent(emitted[r][i])
    /\ Len(TerminalEvents(r)) <= 1
    /\ closed[r] <=> (Len(TerminalEvents(r)) = 1)
    /\ closed[r] => IsTerminal(events[r][Len(events[r])])
    /\ (pc[r] = "closed") <=> closed[r]
    /\ (Admitted(r) /\ ~closed[r]) =>
          \/ ENABLED AdapterError(r)
          \/ \E o \in StorageOutcomes :
               \/ ENABLED InsertMessage(r, o)
               \/ ENABLED TouchChat(r, o)
               \/ ENABLED IncrementRead(r, o)
               \/ ENABLED IncrementWrite(r, o)

C1_Witness ==
  \E r \in Req :
    /\ closed[r]
    /\ Len(events[r]) = 3
    /\ events[r][1] = TokenEvent("Hel")
    /\ events[r][2] = TokenEvent("lo")
    /\ events[r][3].type = "done"

C2_OnErrorState ==
  \A r \in Req :
    "onError" \in Calls(r) =>
      /\ closed[r]
      /\ events[r] = [i \in 1..Len(emitted[r]) |-> TokenEvent(emitted[r][i])]
                       \o <<ErrorEvent(GenerationError)>>
      /\ Calls(r) \cap StorageCalls = {}
      /\ RowsOf(r) = {}

C2_OnErrorStep ==
  \A r \in Req :
    ("onError" \notin Calls(r) /\ "onError" \in {trace'[r][i].call : i \in 1..Len(trace'[r])})
      => /\ events'[r] = Append(events[r], ErrorEvent(GenerationError))
         /\ closed'[r]
         /\ UNCHANGED <<messages, chats, usage_logs>>

\* C2: when the adapter reports onError (after any number of tokens) the relay
\* appends exactly one error event and closes, in a step that changes no table
\* (messages, chats.updated_at, usage_logs); and a request that got onError never
\* calls a storage collaborator, has no row in messages, and ends with that one
\* error event after its tokens.
C2_OnErrorNoSideEffects == [](C2_OnErrorState) /\ [][C2_OnErrorStep]_vars

C2_Witness ==
  \E r \in Req :
    /\ "onError" \in Calls(r)
    /\ Len(emitted[r]) = 2
    /\ Len(usage_logs) = 1

LastEvent(r) == events[r][Len(events[r])]

LastCall(r) == trace[r][Len(trace[r])]

Finalized(r) == pc[r] = "closed" /\ "onComplete" \in Calls(r)

InsertCalls(r) == Cardinality({i \in 1..Len(trace[r]) : trace[r][i].call = "messages.insert"})

C5_Original ==
  \A r \in Req : Finalized(r) => InsertCalls(r) = 1

\* C5 amended: the insert of the assistant message is issued exactly once for
\* a completed generation whose request carries a conversation identifier and
\* never for one without; the request has one row in messages (its content,
\* token total and model) exactly when that insert succeeded, and never two.
C5_InsertAtMostOnce ==
  \A r \in Req :
    /\ InsertCalls(r) <= 1
    /\ Cardinality(RowsOf(r)) <= 1
    /\ (RowsOf(r) # {}) <=> CalledWith(r, "messages.insert", "ok")
    /\ \A i \in RowsOf(r) : messages[i] = messageRow(r)
    /\ ("onComplete" \notin Calls(r)) => InsertCalls(r) = 0
    /\ ("onComplete" \in Calls(r) /\ pc[r] # "insert") =>
         InsertCalls(r) = (IF chatId[r] # NoValue THEN 1 ELSE 0)

C5_Witness ==
  \E r \in Req :
    /\ Finalized(r)
    /\ chatId[r] = "c1"
    /\ Cardinality(RowsOf(r)) = 1
    /\ LastEvent(r).type = "done"

Tier == profiles[UserId]

\* the step of request r that ends its handler without a stream
AbortsBeforeStream(r) == pc'[r] # pc[r] /\ response'[r].kind # "stream"

C6_AbortState ==
  \A r \in Req :
    response[r].kind = "json" =>
      /\ pc[r] = "returned"
      /\ events[r] = <<>> /\ ~closed[r]
      /\ "streamChat" \notin Calls(r)
      /\ "onComplete" \notin Calls(r)
      /\ Calls(r) \cap StorageCalls = {}
      /\ RowsOf(r) = {}
      /\ response[r].status \in {400, 401, 403, 429, 500}
      /\ (trace[r] # <<>> /\ LastCall(r).call = "getUser") => response[r].status = 401
      /\ (trace[r] # <<>> /\ LastCall(r).call = "checkIPRateLimit") =>
            (LastCall(r).outcome = "denied" /\ response[r].status = 429)
      /\ (trace[r] # <<>> /\ LastCall(r).call = "usage_logs.select") =>
            response[r].status = 429
      /\ (trace[r] # <<>> /\ LastCall(r).call = "request.json") =>
            response[r].status =
              IF ~validateRequest(body[r]) THEN 400
              ELSE IF body[r].model \notin TIERS[Tier].models THEN 403
              ELSE 500
      /\ (trace[r] # <<>> /\ LastCall(r).call = "request.json"
            /\ response[r].status = 500) =>
            \/ ModelFamily[body[r].model] \notin {"gpt", "claude", "gemini"}
            \/ getProviderFromModel(body[r].model) \notin apiKeys

C6_AbortStep ==
  \A r \in Req : AbortsBeforeStream(r) => UNCHANGED <<messages, usage_logs, chats>>

\* C6: a condition detected before streaming is answered by one JSON response
\* and no stream event: 401 without a caller, 429 on an IP or quota denial, 400
\* on an unparsable or invalid body, 403 on a model outside the tier's list, 500
\* on an unknown model family or a missing vendor key; streamChat and onComplete
\* are not called, no storage write is issued and no table changes.
C6_AbortsAreJsonOnly == [](C6_AbortState) /\ [][C6_AbortStep]_vars

C6_Witness ==
  \E r \in Req :
    /\ response[r] = MissingKeyResponse
    /\ validateRequest(body[r])
    /\ body[r].model \in TIERS[Tier].models
    /\ getProviderFromModel(body[r].model) \notin apiKeys

\* C7 as stated: a request without a caller identity is answered 401 before the
\* IP limiter has counted it and before any profile, usage or body read.
C7_Original ==
  \A r \in Req :
    response[r].status = 401 =>
      Calls(r) \cap {"checkIPRateLimit", "profiles.select", "usage_logs.select",
                     "request.json"} = {}

\* C7 amended: a request without a caller identity is answered 401 after the
\* IP limiter has counted it (its address has a record with count >= 1) and
\* before any profile, usage or body read: the limiter call and the identity
\* lookup are the only two calls it makes.
C7_UnauthorizedAfterIpGuard ==
  \A r \in Req :
    /\ response[r].status = 401 =>
         /\ trace[r] = << [call |-> "checkIPRateLimit", outcome |-> "ok"],
                          [call |-> "getUser", outcome |-> "none"] >>
         /\ \E ip \in DOMAIN ipRequestCounts : ipRequestCounts[ip].count >= 1
    /\ CalledWith(r, "getUser", "none") =>
         (response[r] = UnauthorizedResponse /\ pc[r] = "returned")

C7_Witness ==
  \E r \in Req : response[r].status = 401 /\ CalledWith(r, "checkIPRateLimit", "ok")

\* C8 as stated: every 429 carries a Retry-After header whose seconds come from
\* the denying guard's reset time: the window reset for the IP guard, the first
\* instant of the next month for the quota guard.
C8_RetryAfterOnDenial ==
  [][\A r \in Req :
       (response[r].kind = "none" /\ response'[r].status = 429) =>
          IF pc[r] = "ip"
          THEN \E ip \in DOMAIN ipRequestCounts :
                 response'[r].retryAfter = CeilSeconds(ipRequestCounts[ip].resetAt - now)
          ELSE response'[r].retryAfter = CeilSeconds(getMonthEndTimestamp(now) - now)]_vars

\* C9: a request whose body passes validation and whose model is not in the
\* list of the caller's tier (claude-3-opus-20240229 on free) is answered 403
\* and ends there: no streamChat call, no storage call, no row in messages.
C9_ForbiddenModelStopsEarly ==
  /\ "claude-3-opus-20240229" \notin TIERS["free"].models
  /\ \A r \in Req :
       ("request.json" \in Calls(r) /\ validateRequest(body[r])
          /\ body[r].model \notin TIERS[Tier].models) =>
         /\ response[r] = ModelForbiddenResponse
         /\ response[r].status = 403
         /\ pc[r] = "returned"
         /\ "streamChat" \notin Calls(r)
         /\ Calls(r) \cap StorageCalls = {}
         /\ RowsOf(r) = {}
         /\ events[r] = <<>>

C9_Witness ==
  \E r \in Req :
    /\ Tier = "free"
    /\ validateRequest(body[r])
    /\ body[r].model = "claude-3-opus-20240229"
    /\ response[r].status = 403

Ceiling(tier) == IF tier = "free" THEN 50 ELSE 1000

\* C10: for free (ceiling 50) and pro (ceiling 1000) and every usage count,
\* checkMessageQuota allows iff used < ceiling, reports remaining = ceiling - used
\* when it allows and remaining = 0 with an error text when it denies, and
\* reports limit = ceiling either way.
C10_FiniteQuota ==
  (probe.done /\ probe.tier \in {"free", "pro"}) =>
    LET c == Ceiling(probe.tier)
        q == probe.result
    IN /\ q.allowed <=> (probe.used < c)
       /\ q.allowed => (q.remaining = c - probe.used /\ q.error = NoValue)
       /\ (~q.allowed) => (q.remaining = 0 /\ q.error # NoValue)
       /\ q.limit = c

C10_Witness ==
  /\ probe.done
  /\ probe.tier = "free"
  /\ probe.used = 50
  /\ ~probe.result.allowed

\* C11: for the tier configured unlimited (messagesPerMonth = -1, enterprise)
\* and every usage count, checkMessageQuota allows, with remaining = -1 and
\* limit = -1 and no error text.
C11_UnlimitedQuota ==
  /\ TIERS["enterprise"].messagesPerMonth = -1
  /\ (probe.done /\ TIERS[probe.tier].messagesPerMonth = -1) =>
       /\ probe.result.allowed
       /\ probe.result.remaining = -1
       /\ probe.result.limit = -1
       /\ probe.result.error = NoValue

C11_Witness ==
  /\ probe.done
  /\ probe.tier = "enterprise"
  /\ probe.used = MaxUsed
  /\ probe.result.allowed

RECURSIVE SumCounts(_)
SumCounts(rows) ==
  IF rows = <<>> THEN 0 ELSE rows[1].messages_count + SumCounts(Tail(rows))

RECURSIVE SumTokens(_)
SumTokens(rows) ==
  IF rows = <<>> THEN 0 ELSE rows[1].tokens_used + SumTokens(Tail(rows))

\* the user's messages_count of the period, over the rows the ledger holds
LedgerCount == SumCounts(usage_logs)

LedgerTokens == SumTokens(usage_logs)

Completions == {r \in DOMAIN pc : "onComplete" \in Calls(r)}

C12_QuotaStep ==
  \A r \in DOMAIN pc :
    (pc[r] = "quota" /\ pc'[r] # "quota") =>
      /\ (pc'[r] = "body") <=> (LedgerCount < getMessageLimit(Tier))
      /\ (pc'[r] # "body") => response'[r].status = 429

C12_LedgerState ==
  /\ (\A r \in DOMAIN pc : pc[r] = "idle" \/ Ended(r)) =>
        LedgerCount = probe.used + Cardinality(Completions)
  /\ \A r \in DOMAIN pc :
        ("usage_logs.select" \in Calls(r) /\ response[r].status = 429) =>
          "streamChat" \notin Calls(r)

\* C12 as stated: with requests sent one at a time by a finite-tier user, the
\* quota step admits a request iff the ledger's messages_count is below the
\* ceiling and answers 429 otherwise; when no request is in flight the ledger's
\* messages_count is the opening count plus the number of completed
\* generations; a request denied by the quota never reaches the provider.
C12_SequentialQuota == [](C12_LedgerState) /\ [][C12_QuotaStep]_vars

\* tokens_used the period opened with: the opening row carries 100
OpeningTokens == IF probe.used = 0 THEN 0 ELSE 100

RECURSIVE SumReported(_)
SumReported(rs) ==
  IF rs = {} THEN 0
  ELSE LET r == CHOOSE x \in rs : TRUE
       IN usage[r].total_tokens + SumReported(rs \ {r})

AllEnded == \A r \in DOMAIN pc : Ended(r)

\* C13 as stated: once the overlapping requests of the user have ended, the
\* ledger's messages_count is the opening count plus the number of completed
\* generations and its tokens_used is the opening total plus the sum of the
\* token totals they reported: no increment is lost under any interleaving.
C13_AtomicIncrement ==
  AllEnded =>
    /\ LedgerCount = probe.used + Cardinality(Completions)
    /\ LedgerTokens = OpeningTokens + SumReported(Completions)

C14_LedgerStep == Len(usage_logs') >= Len(usage_logs)

C14_LedgerState ==
  /\ Len(usage_logs) <= 1
  /\ (AllEnded /\ Completions # {}) => Len(usage_logs) = 1

\* C14 as stated: the ledger holds at most one row for the user and the month
\* in every reachable state; the row exists once a generation of the period has
\* completed, later completions update it under any interleaving, and no step
\* removes a row.
C14_OneRecordPerPeriod == [](C14_LedgerState) /\ [][C14_LedgerStep]_vars

MinOf(a, b) == IF a < b THEN a ELSE b

\* C15: with W = 15 minutes and C = 100, for one identifier starting from no
\* record: the k-th call of a window is allowed iff k <= C, so exactly the first
\* C calls of the window are allowed and every later one is denied; a call made
\* once the clock has passed the window's reset time (and not one made at the
\* reset time itself) is allowed and opens a new window whose record is count 1
\* with reset time W after that call, and C calls succeed in that window too.
C15_FixedWindow ==
  /\ IP_RATE_LIMIT = 100 /\ IP_RATE_WINDOW = 15 * 60 * 1000
  /\ probe.done =>
       /\ probe.result.allowed <=> (probe.used <= IP_RATE_LIMIT)
       /\ probe.allowedCalls = MinOf(probe.used, IP_RATE_LIMIT)
       /\ probe.result.limit = IP_RATE_LIMIT
       /\ probe.result.resetAt = probe.windowStart + IP_RATE_WINDOW
       /\ probe.result.allowed =>
             probe.result.remaining = IP_RATE_LIMIT - probe.used
       /\ (~probe.result.allowed) =>
             (probe.result.remaining = 0 /\ probe.result.error # NoValue)
       /\ \A ip \in DOMAIN ipRequestCounts :
             /\ ipRequestCounts[ip].count = probe.allowedCalls
             /\ ipRequestCounts[ip].resetAt = probe.windowStart + IP_RATE_WINDOW
       /\ (now <= probe.windowStart + IP_RATE_WINDOW) =>
             \A ip \in IPs : ip \in DOMAIN ipRequestCounts

C15_Witness ==
  /\ probe.windows = 2
  /\ probe.windowStart = IP_RATE_WINDOW + 1
  /\ probe.used = IP_RATE_LIMIT + 1
  /\ probe.allowedCalls = IP_RATE_LIMIT
  /\ ~probe.result.allowed

IsTerminalCall(e) == e.call \in {"onComplete", "onError"}

IsOnToken(e) == e.call = "onToken"

IsReported(e) == e.call = "usage.reported"

IsUpstreamFailure(e) ==
  /\ e.call \in {"upstream.request", "chunk", "upstream.usage"}
  /\ e.outcome \in {"failed", "malformed"}

TerminalCalls(r) == SelectSeq(trace[r], IsTerminalCall)

\* the texts passed to onToken, concatenated in call order
RECURSIVE ConcatTokens(_)
ConcatTokens(log) ==
  IF log = <<>> THEN ""
  ELSE IF IsOnToken(log[1]) THEN log[1].outcome \o ConcatTokens(Tail(log))
       ELSE ConcatTokens(Tail(log))

\* the usage the upstream reported last, all-zero when it reported none
LastReported(r) ==
  LET reports == SelectSeq(trace[r], IsReported) IN
  IF reports = <<>> THEN NoUsage ELSE reports[Len(reports)].usage

UpstreamFailed(r) == \E i \in 1..Len(trace[r]) : IsUpstreamFailure(trace[r][i])

\* the turn sequence, system turns removed, ends in a user turn with
\* non-blank content
ValidTrailingUser(turns) ==
  LET rest == conversationMessages(turns) IN
  /\ rest # <<>>
  /\ rest[Len(rest)].role = "user"
  /\ trim(rest[Len(rest)].content) # ""

\* C16: for a turn sequence ending in a non-empty user turn and each of the
\* three adapters: streamChat makes at most one terminal callback, it has made
\* exactly one when it returns and none before, that callback is the last call
\* (every onToken precedes it), a call that has not returned can always take a
\* step; when the callback is onComplete its text is the concatenation of the
\* onToken texts in order and its usage is the usage the upstream reported; a
\* stream without failure (also one with zero tokens) ends in onComplete.
C16_OneTerminalCallback ==
  \A r \in Req :
    ValidTrailingUser(body[r].messages) =>
      /\ Len(TerminalCalls(r)) <= 1
      /\ (pc[r] = "sc_resolved") <=> (Len(TerminalCalls(r)) = 1)
      /\ Len(TerminalCalls(r)) = 1 => IsTerminalCall(trace[r][Len(trace[r])])
      /\ \A i \in 1..Len(trace[r]) :
            trace[r][i].call = "onComplete" =>
              /\ trace[r][i].outcome = ConcatTokens(trace[r])
              /\ trace[r][i].usage = LastReported(r)
      /\ (pc[r] = "sc_resolved" /\ ~UpstreamFailed(r)) =>
            trace[r][Len(trace[r])].call = "onComplete"
      /\ (pc[r] = "sc_resolved" /\ UpstreamFailed(r)) =>
            trace[r][Len(trace[r])].call = "onError"
      /\ pc[r] # "sc_resolved" =>
            \/ ENABLED StreamChatRequest(r, "ok")
            \/ ENABLED StreamChatEnd(r)
            \/ ENABLED StreamChatUsage(r, "ok", NoUsage)

C16_Witness ==
  \E r \in Req :
    /\ AdapterOf(r) = "google"
    /\ body[r].messages = <<Turn("system", "be brief"), Turn("user", "hi")>>
    /\ pc[r] = "sc_resolved"
    /\ SelectSeq(trace[r], IsOnToken) =
         << Entry("onToken", "Hel", NoUsage), Entry("onToken", "lo", NoUsage) >>
    /\ trace[r][Len(trace[r])] =
         Entry("onComplete", "Hello",
               [prompt_tokens |-> 5, completion_tokens |-> 7, total_tokens |-> 12])

\* C17 as stated: for a turn sequence that, system turns removed, does not end
\* in a user turn with non-blank content, every adapter reports onError at
\* once: no upstream request is issued, no onToken call is made, and onError
\* is the only entry of the log when streamChat has returned.
C17_RejectedBeforeUpstream ==
  \A r \in Req :
    ~ValidTrailingUser(body[r].messages) =>
      /\ \A i \in 1..Len(trace[r]) :
            trace[r][i].call \notin {"upstream.request", "onToken", "onComplete"}
      /\ pc[r] \in {"sc_call", "sc_resolved"}
      /\ pc[r] = "sc_resolved" => trace[r] = <<Entry("onError", "ok", NoUsage)>>

OpenAIModels == {"gpt-3.5-turbo", "gpt-4", "gpt-4-turbo", "gpt-4o"}
AnthropicModels == {"claude-3-haiku-20240307", "claude-3-sonnet-20240229",
                    "claude-3-opus-20240229", "claude-3-5-sonnet-20241022"}
GoogleModels == {"gemini-pro", "gemini-1.5-pro", "gemini-1.5-flash"}

\* identifiers that begin with none of gpt, o1, o3, claude, gemini in any case
UnknownModels ==
  {"llama-2-70b", "mistral-large", "text-davinci-003", "my-gpt-4", "chatgpt",
   "gp", "o2-mini", "claud", "gem", "palm-2", "x"}

AnyCase(ids) == UNION {CaseVariants(id) : id \in ids}

\* C19: getProviderFromModel resolves every model id of the request schema, in
\* any letter case, to the vendor of its family (gpt -> openai, claude ->
\* anthropic, gemini -> google), resolves o1 and o3 ids to openai, and fails
\* with the unknown-model error, never with a vendor, on an identifier that
\* has none of these prefixes.
C19_VendorResolution ==
  /\ aiModelSchema = OpenAIModels \cup AnthropicModels \cup GoogleModels
  /\ probe.done =>
       /\ probe.model \in AnyCase(OpenAIModels) => probe.result = "openai"
       /\ probe.model \in AnyCase({"o1-preview", "o1-mini", "o3-mini"}) =>
             probe.result = "openai"
       /\ probe.model \in AnyCase(AnthropicModels) => probe.result = "anthropic"
       /\ probe.model \in AnyCase(GoogleModels \cup {"gemini-2.0-flash"}) =>
             probe.result = "google"
       /\ probe.model \in AnyCase(UnknownModels) => probe.result = "throw"
       /\ probe.result \in Providers \cup {"throw"}

C19_Witness ==
  /\ probe.done
  /\ probe.model = "CLAUDE-3-OPUS-20240229"
  /\ probe.result = "anthropic"

\* position of the first entry `what` in the log of r, 0 when there is none
FirstCall(r, what) ==
  IF what \in Calls(r)
  THEN CHOOSE i \in 1..Len(trace[r]) :
         /\ trace[r][i].call = what
         /\ \A j \in 1..(i - 1) : trace[r][j].call # what
  ELSE 0

\* the client went away while generation was still streaming
DisconnectedMidStream(r) ==
  /\ "client.disconnect" \in Calls(r)
  /\ \/ "onComplete" \notin Calls(r)
     \/ FirstCall(r, "client.disconnect") < FirstCall(r, "onComplete")

\* C20 as stated: when the client disconnects while the response is streaming,
\* before a terminal event and before onComplete (also after the last token),
\* nothing is persisted or accounted for that request: no storage call follows
\* the disconnect, the request has no row in messages, and the step that
\* follows changes neither messages nor usage_logs.
C20_NoPersistenceAfterDisconnect ==
  \A r \in Req :
    DisconnectedMidStream(r) =>
      /\ \A i \in 1..Len(trace[r]) :
            i > FirstCall(r, "client.disconnect") => trace[r][i].call \notin StorageCalls
      /\ RowsOf(r) = {}

(***************************************************************************)
(* C21                                                                     *)
(***************************************************************************)
\* what a reader is to do with the served lines `items`, read in order with
\* `content` accumulated so far: an error event ends the reading
RECURSIVE ExpectedAfter(_, _, _)
ExpectedAfter(items, content, log) ==
  IF items = <<>> THEN log
  ELSE LET it == Head(items) IN
       CASE it.type = "token" ->
              ExpectedAfter(Tail(items), content \o it.text,
                            Append(log, Handled("token", it.text)))
         [] it.type = "done" ->
              ExpectedAfter(Tail(items), content, Append(log, Handled("done", content)))
         [] it.type = "error" -> Append(log, Handled("error", it.text))
         [] OTHER ->
              ExpectedAfter(Tail(items), content, Append(log, Handled("warn", "")))

ExpectedLog(items) == ExpectedAfter(items, "", <<>>)

HasError(items) == \E i \in 1..Len(items) : items[i].type = "error"

\* the text accumulated from the token lines of `items`
RECURSIVE ContentOf(_)
ContentOf(items) ==
  IF items = <<>> THEN ""
  ELSE (IF Head(items).type = "token" THEN Head(items).text ELSE "")
         \o ContentOf(Tail(items))

\* what is to be done with a whole body: its complete lines, then the line it
\* ends in, which no error event among the complete lines lets the reader reach
\* and whose error event, if it is one, is logged and not raised
ExpectedOfBody(script, tail) ==
  IF HasError(script) THEN ExpectedLog(script)
  ELSE CASE tail.type = "none" -> ExpectedLog(script)
         [] tail.type = "done" ->
              Append(ExpectedLog(script), Handled("done", ContentOf(script)))
         [] OTHER -> Append(ExpectedLog(script), Handled("warn", ""))

\* number of characters of the body delivered so far
Delivered == Len(client.stream) - Len(client.wire)

\* length of the first k lines of the script as served, "\n\n" included
RECURSIVE LengthOfLines(_, _)
LengthOfLines(script, k) ==
  IF k = 0 THEN 0
  ELSE LengthOfLines(script, k - 1) + Len(script[k].line) + 2

\* the lines of the script whose closing newline (the first of the two) has
\* been delivered
CompleteLines ==
  LET complete == {k \in 0..Len(client.script) :
                     k = 0 \/ LengthOfLines(client.script, k) - 1 <= Delivered}
      last == CHOOSE k \in complete : \A j \in complete : j <= k
  IN SubSeq(client.script, 1, last)

\* the same body read in one chunk and then to its end
ReadInOneChunk(c) ==
  LET start == Reading(c.script, c.tail)
      turn == readLoopTurn([start EXCEPT !.wire = ""], start.wire)
  IN IF turn.thrown # NoValue
     THEN finallyBlock(catchError_sendMessage(turn), "threw")
     ELSE finallyBlock(afterReadLoop(turn), "ended")

\* C21: the reader of the event stream is insensitive to chunk boundaries.
\* While it reads, it has handled the events of exactly the lines whose newline
\* was delivered (a line is parsed only once complete; a complete line that is
\* not JSON is skipped and the lines after it are still handled; an error event
\* ends the run).  When the run is over, what it handled, the messages in the
\* store and the error shown are those of the body read in one chunk.
C21_ChunkInsensitive ==
  /\ client.pc = "reading" =>
       /\ client.handled = ExpectedLog(CompleteLines)
       /\ ~HasError(CompleteLines)
       /\ client.assistantContent = ContentOf(CompleteLines)
  /\ client.pc = "idle" =>
       /\ client.handled = ExpectedOfBody(client.script, client.tail)
       /\ client.handled = ReadInOneChunk(client).handled
       /\ client.messages = ReadInOneChunk(client).messages
       /\ client.error = ReadInOneChunk(client).error
       /\ client.outcome = ReadInOneChunk(client).outcome

\* a chunk ended in the middle of the `data:` line of the done event, after a
\* line that is not JSON was skipped and the token after it was handled
C21_Witness ==
  /\ client.pc = "reading"
  /\ client.handled = <<Handled("warn", ""), Handled("token", "lo")>>
  /\ client.streamBuffer = SubSeq(DoneLine, 1, 10)
  /\ client.tail.type = "done"

(***************************************************************************)
(* C22                                                                     *)
(***************************************************************************)
\* C22: canAccessModel(tier, model) is true exactly when model is in the tier's
\* list (free allows gemini-pro and denies gpt-4 and claude-3-opus-20240229,
\* pro allows gpt-4 and denies claude-3-opus-20240229), and
\* getSubscriptionLimits returns the free configuration for every tier name
\* outside {free, pro, enterprise}.
C22_TierTable ==
  /\ (probe.fn = "canAccessModel" /\ probe.done) =>
       /\ probe.allowed <=> probe.model \in TIERS[probe.tier].models
       /\ (probe.tier = "free" /\ probe.model = "gemini-pro") => probe.allowed
       /\ (probe.tier = "free" /\ probe.model \in {"gpt-4", "claude-3-opus-20240229"})
            => ~probe.allowed
       /\ (probe.tier = "pro" /\ probe.model = "gpt-4") => probe.allowed
       /\ (probe.tier = "pro" /\ probe.model = "claude-3-opus-20240229")
            => ~probe.allowed
  /\ (probe.fn = "getSubscriptionLimits" /\ probe.done) =>
       /\ probe.tier \in Tiers => probe.limits = Looked("config", probe.tier)
       /\ probe.tier \notin Tiers => probe.limits = Looked("config", "free")

(***************************************************************************)
(* C23                                                                     *)
(***************************************************************************)
\* the allowed calls of `ip` made at the instants in S
RECURSIVE AllowedAmong(_, _)
AllowedAmong(ip, S) ==
  IF S = {} THEN 0
  ELSE LET t == CHOOSE t \in S : TRUE
       IN probe.allowed[ip][t] + AllowedAmong(ip, S \ {t})

\* the allowed calls of `ip` whose times fall in [a, a + IP_RATE_WINDOW]
AllowedInInterval(ip, a) ==
  AllowedAmong(ip, {t \in Instants : a <= t /\ t <= a + IP_RATE_WINDOW})

\* intervals that begin or end at an instant of calls
IntervalStarts == Instants \cup {t - IP_RATE_WINDOW : t \in Instants}

\* C23: for one identifier, the allowed calls whose times fall in any interval
\* of length IP_RATE_WINDOW never number more than 2 * IP_RATE_LIMIT.
C23_BurstAtMostTwice ==
  \A ip \in Identifiers, a \in IntervalStarts :
    AllowedInInterval(ip, a) <= 2 * IP_RATE_LIMIT

\* a burst at a window boundary: within one interval of length IP_RATE_WINDOW
\* the identifier was allowed 2 * IP_RATE_LIMIT - 1 calls, the last of them in
\* a second window
C23_Witness ==
  /\ AllowedInInterval("203.0.113.7", IP_RATE_WINDOW) = 2 * IP_RATE_LIMIT - 1
  /\ probe.allowed["203.0.113.7"][IP_RATE_WINDOW] = IP_RATE_LIMIT - 1
  /\ probe.allowed["203.0.113.7"][IP_RATE_WINDOW + 1] = IP_RATE_LIMIT
  /\ probe.result.allowed

(***************************************************************************)
(* C24                                                                     *)
(***************************************************************************)
\* the step is a call of checkIPRateLimit
IsLimiterCall == probe'.calls # probe.calls

InsideWindow(ip) ==
  ip \in DOMAIN ipRequestCounts /\ ~(now > ipRequestCounts[ip].resetAt)

C24_RecordState ==
  \A k \in DOMAIN ipRequestCounts :
    1 <= ipRequestCounts[k].count /\ ipRequestCounts[k].count <= IP_RATE_LIMIT

C24_CallStep ==
  IsLimiterCall =>
    LET ip == probe'.ip
        result == probe'.result
    IN /\ ~result.allowed =>
            /\ ipRequestCounts' = ipRequestCounts
            /\ result.remaining = 0
       /\ (result.allowed /\ InsideWindow(ip)) =>
            /\ ipRequestCounts'[ip].resetAt = ipRequestCounts[ip].resetAt
            /\ ipRequestCounts'[ip].count = ipRequestCounts[ip].count + 1
       /\ result.allowed =>
            result.remaining = IP_RATE_LIMIT - ipRequestCounts'[ip].count
       /\ \A other \in Identifiers \ {ip} :
            /\ other \in DOMAIN ipRequestCounts' <=> other \in DOMAIN ipRequestCounts
            /\ other \in DOMAIN ipRequestCounts =>
                 ipRequestCounts'[other] = ipRequestCounts[other]

\* C24: every stored record has 1 <= count <= IP_RATE_LIMIT; a denied call
\* leaves the Map unchanged (the count is not raised, the reset time is not
\* extended) and reports remaining 0; an allowed call inside a window keeps the
\* reset time and raises the count by exactly 1; an allowed call reports
\* remaining = IP_RATE_LIMIT - count; a call for one identifier never changes
\* the record of another.
C24_CallFrame == [](C24_RecordState) /\ [][C24_CallStep]_vars

\* a call was denied at the reset time of its window while another identifier
\* has a record of its own
C24_Witness ==
  /\ probe.done
  /\ ~probe.result.allowed
  /\ probe.ip = "203.0.113.7"
  /\ now = IP_RATE_WINDOW
  /\ "198.51.100.9" \in DOMAIN ipRequestCounts
  /\ ipRequestCounts["198.51.100.9"].count = 2

(***************************************************************************)
(* C25                                                                     *)
(***************************************************************************)
\* the step is a run of cleanupExpiredEntries that removed something
IsSweep == probe' = probe /\ ipRequestCounts' # ipRequestCounts

C25_SweepStep ==
  IsSweep =>
    /\ DOMAIN ipRequestCounts' =
         {k \in DOMAIN ipRequestCounts : ~(ipRequestCounts[k].resetAt < now)}
    /\ \A k \in DOMAIN ipRequestCounts' : ipRequestCounts'[k] = ipRequestCounts[k]

\* what the next call of each identifier returns is the same with the sweeps
\* that ran as with none, and so was the result of the last call
C25_SameAdmission ==
  /\ probe.result = probe.unsweptResult
  /\ \A ip \in Identifiers :
       checkIPRateLimit(ipRequestCounts, ip, now) = checkIPRateLimit(probe.unswept, ip, now)

\* C25: cleanupExpiredEntries removes exactly the records whose reset time is
\* strictly before the clock, and sweeps interleaved at any points leave the
\* allowed/denied result, remaining and resetAt of every call as they are with
\* no sweep.
C25_SweepTransparent == [](C25_SameAdmission) /\ [][C25_SweepStep]_vars

\* a record was swept and its identifier called again, while the Map without
\* sweeps still holds the expired record of another identifier
C25_Witness ==
  /\ probe.done
  /\ probe.ip = "203.0.113.7"
  /\ now = IP_RATE_WINDOW + 1
  /\ DOMAIN ipRequestCounts = {"203.0.113.7"}
  /\ DOMAIN probe.unswept = Identifiers
  /\ ipRequestCounts["203.0.113.7"].count = 2

(***************************************************************************)
(* C26                                                                     *)
(***************************************************************************)
\* C26: for a finite-tier user whose period opened at or below the ceiling,
\* under any interleaving of overlapping requests the generations completed in
\* the period (those the period opened with plus those completed since) never
\* number more than the tier's ceiling.
C26_CompletionsWithinCeiling ==
  (~isUnlimited(Tier) /\ probe.used <= getMessageLimit(Tier)) =>
    probe.used + Cardinality(Completions) <= getMessageLimit(Tier)

(***************************************************************************)
(* C30                                                                     *)
(***************************************************************************)
C30_QuotaStep ==
  \A r \in DOMAIN pc :
    (pc[r] = "quota" /\ pc'[r] = "body" /\ ~isUnlimited(Tier)) =>
      LedgerCount < getMessageLimit(Tier)

\* C30: whenever a request of a finite-tier user passes from the quota check
\* to validation, the messages_count stored for the current period is below
\* the tier's ceiling, also when the read of the usage row fails or matches no
\* single row.
C30_NeverAdmitsOverQuota == [][C30_QuotaStep]_vars

(***************************************************************************)
(* C27                                                                     *)
(***************************************************************************)
\* the texts of the token events of a stream, joined in order
RECURSIVE ConcatEventTokens(_)
ConcatEventTokens(evs) ==
  IF evs = <<>> THEN ""
  ELSE (IF IsToken(Head(evs)) THEN Head(evs).token ELSE "")
         \o ConcatEventTokens(Tail(evs))

EndedWithDone(r) ==
  closed[r] /\ events[r] # <<>> /\ LastEvent(r).type = "done"

\* the stored message of a request that ended with done agrees with the stream
C27_MessageState ==
  \A r \in DOMAIN pc :
    EndedWithDone(r) =>
      /\ chatId[r] # NoValue => Cardinality(RowsOf(r)) = 1
      /\ \A i \in RowsOf(r) :
           /\ messages[i].content = ConcatEventTokens(events[r])
           /\ messages[i].tokens_used = LastEvent(r).usage.total_tokens

\* the step that sends done
SendsDone(r) == ~closed[r] /\ closed'[r] /\ events'[r][Len(events'[r])].type = "done"

C27_OriginalStep ==
  \A r \in DOMAIN pc :
    SendsDone(r) =>
      SumTokens(usage_logs') - SumTokens(usage_logs)
        = events'[r][Len(events'[r])].usage.total_tokens

C27_LedgerStep ==
  \A r \in DOMAIN pc :
    SendsDone(r) =>
      LET total == events'[r][Len(events'[r])].usage.total_tokens
          added == SumTokens(usage_logs') - SumTokens(usage_logs)
      IN /\ trace'[r][Len(trace'[r])].call = "incrementMessageCount.write"
         /\ trace'[r][Len(trace'[r])].outcome = "ok" => added = total
         /\ trace'[r][Len(trace'[r])].outcome # "ok" => added = 0

C28_ModelTablesConsistent ==
  (probe.fn = "canAccessModel" /\ probe.done) =>
    /\ probe.allowed =>
         /\ probe.model \in aiModelSchema
         /\ getProviderFromModel(probe.model) \in Providers
    /\ probe.model \in aiModelSchema =>
         \E t \in Tiers : canAccessModel(t, probe.model)
    /\ (probe.allowed /\ probe.tier = "free") => canAccessModel("pro", probe.model)
    /\ (probe.allowed /\ probe.tier = "pro") => canAccessModel("enterprise", probe.model)

(***************************************************************************)
(* C29                                                                     *)
(***************************************************************************)
IsDoneEntry(e) == e.type = "done"

\* the texts of the token entries of what the reader handled, joined in order
RECURSIVE ConcatHandledTokens(_)
ConcatHandledTokens(log) ==
  IF log = <<>> THEN ""
  ELSE (IF Head(log).type = "token" THEN Head(log).text ELSE "")
         \o ConcatHandledTokens(Tail(log))

\* the messages the current run added to the store after the user's message
AddedByRun == SubSeq(client.messages, client.added + 1, Len(client.messages))

AtRest ==
  /\ client.pc = "idle"
  /\ ~client.isLoading
  /\ ~client.isStreaming
  /\ client.streamingContent = ""

C29_RunState ==
  /\ client.inFlight <= 1
  /\ client.inFlight = (IF client.pc = "idle" THEN 0 ELSE 1)
  /\ client.pc = "idle" => AtRest
  /\ client.pc # "idle" => (client.isLoading /\ client.isStreaming)
  /\ client.runs > 0 =>
       /\ client.messages[client.added].role = "user"
       /\ Len(AddedByRun) = Len(SelectSeq(client.handled, IsDoneEntry))
       /\ Len(AddedByRun) <= 1
       /\ \A i \in 1..Len(AddedByRun) :
            /\ AddedByRun[i].role = "assistant"
            /\ \E k \in 1..Len(client.handled) :
                 /\ client.handled[k].type = "done"
                 /\ AddedByRun[i].content
                      = ConcatHandledTokens(SubSeq(client.handled, 1, k - 1))

\* a call of sendMessage made while a flag is set changes nothing in the store
\* and starts nothing
C29_GuardStep ==
  (client'.calls # client.calls /\ (client.isLoading \/ client.isStreaming)) =>
    client' = [client EXCEPT !.calls = @ + 1]

====
